---- MODULE Spec2Model ----
(***************************************************************************)
(* Model of the indianhistorybite server (queue variant of server.js):     *)
(* the single-flight coordinator processPromptFile, the generation client  *)
(* executeClaudeAPICall, the audit log sink logRequest and the two request *)
(* handlers, run on the JavaScript event loop.                             *)
(*                                                                         *)
(* One macrotask (start-up, an HTTP request, the settling of the upstream  *)
(* call) runs its synchronous code to the first suspension; the promise    *)
(* reactions it leaves behind run one by one from the FIFO microtask       *)
(* queue, and no new macrotask starts before that queue is empty.          *)
(***************************************************************************)
EXTENDS Integers, Sequences, FiniteSets, TLC

\* Number of HTTP requests that arrive (the start-up call is caller 0).
MaxCallers == 2
\* Number of changes the environment makes to the prompt file / log file.
MaxEnvEdits == 1
\* Number of prompt augmentations followed when the augmenter is run on its own.
MaxAugmentations == 2

Startup == 0
Callers == 0..MaxCallers

NULL == "<null>"
NoTime == 0
NoExc == "<none>"

Str(t) == [type |-> "string", text |-> t]
NoPayload == [type |-> "null"]
NoResult == [type |-> "none"]

PromptStates == {"missing", "unreadable", "empty", "ok"}
UpstreamFailures == {"timeout", "network", "status", "noContent", "noText"}
UpstreamTexts == {"story", "plain"}
UpstreamOutcomes == UpstreamFailures \cup UpstreamTexts

VARIABLES
    \* environment
    claudeApiKey,          \* process.env.CLAUDE_API_KEY is set
    production,            \* process.env.NODE_ENV === 'production'
    promptFile,            \* state of runtime/data/prompt.txt
    logWritable,           \* fs.appendFileSync(logFile, ..) succeeds
    appApiKey,             \* process.env.APP_API_KEY
    envEdits,
    clock,                 \* Date.now(), advanced by every macrotask
    \* program state
    currentResult,
    requestQueue,
    isCurrentlyProcessing,
    generalLimiter,        \* the store of security.rateLimiters.general
    csrfTokens,            \* the Map csrfTokens of security.js: token to expiry
    inFlight,              \* cycles whose axios.post has not settled
    microtasks,            \* pending promise reactions, FIFO
    logFile,               \* records appended to claude_runs.log
    booted,
    cycle,                 \* position of the processPromptFile run for c
    cyclePromise,          \* promise of the processPromptFile run for c
    waiter,                \* promise pair of a queued caller
    handler,               \* position of the request handler of c
    reply,                 \* what the handler of c sent
    \* history
    hist

vars == <<claudeApiKey, production, promptFile, logWritable, appApiKey,
          envEdits, clock, generalLimiter, csrfTokens, currentResult, requestQueue,
          isCurrentlyProcessing, inFlight,
          microtasks, logFile, booted, cycle, cyclePromise, waiter, handler,
          reply, hist>>

(***************************************************************************)
(* Values                                                                  *)
(***************************************************************************)
Result(response, isProcessing, lastModified, error) ==
    [response |-> response, isProcessing |-> isProcessing,
     lastModified |-> lastModified, error |-> error]

\* let currentResult = {...} at module load
InitialResult ==
    Result(Str("Waiting for prompt... Edit prompt.txt and save to see results here."),
           FALSE, NoTime, NULL)

\* error.message of what the awaited axios.post / the envelope check raises
FailureMessage(o) ==
    CASE o = "timeout"   -> "timeout of 60000ms exceeded"
      [] o = "network"   -> "Network Error"
      [] o = "status"    -> "Request failed with status code 500"
      [] o = "noContent" -> "Invalid response from Claude API"
      [] o = "noText"    -> "Cannot read properties of undefined (reading 'match')"

\* error.message of fs.readFileSync on a prompt file that cannot be read
ReadFailureMessage == "EACCES: permission denied, open 'prompt.txt'"

\* Variant: error.message is stored whatever NODE_ENV says.
UserErrorVerbose(msg) == msg

\* process.env.NODE_ENV === 'production' ? 'Processing failed' : error.message
UserError(msg) == IF production THEN "Processing failed" ELSE msg

Task(kind, c) == [kind |-> kind, c |-> c]

(***************************************************************************)
(* The state the synchronous code works on, as one record.  exc is the     *)
(* exception in flight inside the running code (NoExc between steps).      *)
(***************************************************************************)
State ==
    [currentResult |-> currentResult, requestQueue |-> requestQueue,
     isCurrentlyProcessing |-> isCurrentlyProcessing, inFlight |-> inFlight,
     microtasks |-> microtasks, logFile |-> logFile, cycle |-> cycle,
     cyclePromise |-> cyclePromise, waiter |-> waiter, handler |-> handler,
     reply |-> reply, hist |-> hist, exc |-> NoExc]

Install(s) ==
    /\ currentResult' = s.currentResult
    /\ requestQueue' = s.requestQueue
    /\ isCurrentlyProcessing' = s.isCurrentlyProcessing
    /\ inFlight' = s.inFlight
    /\ microtasks' = s.microtasks
    /\ logFile' = s.logFile
    /\ cycle' = s.cycle
    /\ cyclePromise' = s.cyclePromise
    /\ waiter' = s.waiter
    /\ handler' = s.handler
    /\ reply' = s.reply
    /\ hist' = s.hist

Enqueue(s, kind, c) == [s EXCEPT !.microtasks = Append(@, Task(kind, c))]

\* currentResult = {...}: the whole object is replaced; cycle c has its outcome.
Write(s, c, r) ==
    [s EXCEPT !.currentResult = r,
              !.hist.writer = c,
              !.hist.outcome[c] = r,
              !.hist.writes[c] = @ + 1]

(***************************************************************************)
(* logRequest(prompt, response, error): one record appended to the log     *)
(* file; a failing append is caught and reported on the console only.      *)
(* The prompt of cycle c carries that cycle's generation metadata, so the  *)
(* record names the cycle.                                                 *)
(***************************************************************************)
LogEntry(c, response, error) ==
    [prompt |-> c,
     kind |-> IF error # NULL THEN "ERROR" ELSE "RESPONSE RECEIVED",
     body |-> IF error # NULL THEN Str(error) ELSE response]

\* Variant: the record is appended twice.
LogRequestTwice(s, c, response, error) ==
    IF logWritable
    THEN [s EXCEPT !.logFile = @ \o <<LogEntry(c, response, error),
                                      LogEntry(c, response, error)>>]
    ELSE [s EXCEPT !.hist.logFailed = @ \cup {c}]

LogRequest(s, c, response, error) ==
    IF logWritable
    THEN [s EXCEPT !.logFile = Append(@, LogEntry(c, response, error))]
    ELSE [s EXCEPT !.hist.logFailed = @ \cup {c}]

(***************************************************************************)
(* Text.  A text is a sequence of characters; a word that no code looks    *)
(* into ("name", "content", "json", "x") stands for its letters, and the   *)
(* letters n, r, t of the escapes \n, \r, \t are characters of their own.  *)
(***************************************************************************)
QUOTE == "\""
BS == "\\"
LF == "\n"
CR == "\r"
TAB == "\t"
SP == " "
\* Three backquotes, the fence of a code block
FENCE == "[fence]"
\* \s of the regular expressions, and what String.prototype.trim removes
Whitespace == {SP, LF, CR, TAB}
\* U+0000..U+001F: JSON.parse rejects them inside a string
ControlChars == {LF, CR, TAB}

\* A string that came out of the upstream text
RawText(cs) == [type |-> "string", chars |-> cs]
Undefined == [type |-> "undefined"]
JsonObject(fields) == [type |-> "object", fields |-> fields]
EmptyFields == [k \in {} |-> Undefined]

RECURSIVE SkipWs(_, _)
\* \s* from position i: the position of the first character that is not \s
SkipWs(t, i) ==
    IF i <= Len(t) /\ t[i] \in Whitespace THEN SkipWs(t, i + 1) ELSE i

RECURSIVE TrimEnd(_)
TrimEnd(t) ==
    IF t # <<>> /\ t[Len(t)] \in Whitespace THEN TrimEnd(SubSeq(t, 1, Len(t) - 1)) ELSE t

\* String.prototype.trim
Trim(t) == TrimEnd(SubSeq(t, SkipWs(t, 1), Len(t)))

At(t, i, ch) == i <= Len(t) /\ t[i] = ch

(***************************************************************************)
(* claudeResponse.match(/[fence]json\s*(\{[\s\S]*?\})\s*[fence]/)          *)
(***************************************************************************)
\* The closing braces the group can end at when it starts at position j:
\* a } followed by \s* and the closing fence
GroupEnds(t, j) ==
    {k \in (j + 1)..Len(t) : t[k] = "}" /\ At(t, SkipWs(t, k + 1), FENCE)}

\* The match attempted at position i
FenceMatchAt(t, i) ==
    /\ At(t, i, FENCE) /\ At(t, i + 1, "json")
    /\ At(t, SkipWs(t, i + 2), "{")
    /\ GroupEnds(t, SkipWs(t, i + 2)) # {}

\* jsonMatch: the leftmost match, its group as short as possible (*?)
JsonMatch(t) ==
    LET starts == {i \in 1..Len(t) : FenceMatchAt(t, i)}
    IN  IF starts = {}
        THEN [found |-> FALSE, group |-> <<>>]
        ELSE LET i == CHOOSE x \in starts : \A y \in starts : x <= y
                 j == SkipWs(t, i + 2)
                 k == CHOOSE x \in GroupEnds(t, j) : \A y \in GroupEnds(t, j) : x <= y
             IN  [found |-> TRUE, group |-> SubSeq(t, j, k)]

(***************************************************************************)
(* JSON.parse, for texts made of objects, strings and null                 *)
(***************************************************************************)
ParseFailure == [ok |-> FALSE, val |-> Undefined, pos |-> 0]
Parsed(v, p) == [ok |-> TRUE, val |-> v, pos |-> p]

\* The character an escape sequence stands for
Unescape(ch) ==
    CASE ch = "n" -> LF
      [] ch = "r" -> CR
      [] ch = "t" -> TAB
      [] OTHER -> ch
Escapable == {QUOTE, BS, "n", "r", "t"}

RECURSIVE ParseChars(_, _, _)
\* The characters of a string up to its closing quote
ParseChars(t, i, acc) ==
    CASE i > Len(t) -> ParseFailure
      [] At(t, i, QUOTE) -> Parsed(RawText(acc), i + 1)
      [] At(t, i, BS) ->
            IF i + 1 <= Len(t) /\ t[i + 1] \in Escapable
            THEN ParseChars(t, i + 2, Append(acc, Unescape(t[i + 1])))
            ELSE ParseFailure
      [] i <= Len(t) /\ t[i] \in ControlChars -> ParseFailure
      [] OTHER -> ParseChars(t, i + 1, Append(acc, t[i]))

RECURSIVE ParseValue(_, _)
RECURSIVE ParseMembers(_, _, _)

\* "key" : value, then either , and the next member or }
ParseMembers(t, i, fields) ==
    IF ~At(t, i, QUOTE)
    THEN ParseFailure
    ELSE LET key == ParseChars(t, i + 1, <<>>)
         IN  IF ~key.ok \/ ~At(t, SkipWs(t, key.pos), ":")
             THEN ParseFailure
             ELSE LET v == ParseValue(t, SkipWs(t, key.pos) + 1)
                  IN  IF ~v.ok
                      THEN ParseFailure
                      ELSE LET f == (key.val.chars :> v.val) @@ fields
                               e == SkipWs(t, v.pos)
                           IN  CASE At(t, e, ",") -> ParseMembers(t, SkipWs(t, e + 1), f)
                                 [] At(t, e, "}") -> Parsed(JsonObject(f), e + 1)
                                 [] OTHER -> ParseFailure

ParseValue(t, i) ==
    LET j == SkipWs(t, i)
    IN  CASE At(t, j, QUOTE) -> ParseChars(t, j + 1, <<>>)
          [] At(t, j, "null") -> Parsed([type |-> "null"], j + 1)
          [] At(t, j, "{") ->
                IF At(t, SkipWs(t, j + 1), "}")
                THEN Parsed(JsonObject(EmptyFields), SkipWs(t, j + 1) + 1)
                ELSE ParseMembers(t, SkipWs(t, j + 1), EmptyFields)
          [] OTHER -> ParseFailure

\* JSON.parse(text): one value, and nothing but whitespace after it
JSONParse(t) ==
    LET v == ParseValue(t, 1)
    IN  IF v.ok /\ SkipWs(t, v.pos) > Len(t) THEN v ELSE ParseFailure

\* parsedJson.name, parsedJson.content
Property(v, key) ==
    IF v.type = "object" /\ <<key>> \in DOMAIN v.fields THEN v.fields[<<key>>] ELSE Undefined

\* The truth value JavaScript gives a value in a condition
Truthy(v) ==
    CASE v.type = "string" -> v.chars # <<>>
      [] v.type = "object" -> TRUE
      [] OTHER -> FALSE

(***************************************************************************)
(* The repair pass: cleaned.replace(/.../gs, ...) for the content field   *)
(* and for the shareableQuote field.  The pattern is the quoted key, a     *)
(* colon, \s*, and a quoted value made of characters other than the quote  *)
(* and the backslash and of backslash-character pairs.                     *)
(***************************************************************************)
RECURSIVE ValueEnd(_, _)
\* The value and its closing quote, from position i: the position of the closing quote,
\* 0 when the text ends first
ValueEnd(t, i) ==
    CASE i > Len(t) -> 0
      [] At(t, i, QUOTE) -> i
      [] At(t, i, BS) -> IF i + 1 <= Len(t) THEN ValueEnd(t, i + 2) ELSE 0
      [] OTHER -> ValueEnd(t, i + 1)

\* The match of "key":\s*"..." attempted at position i: where the value
\* starts and where its closing quote is (0: no match)
FieldMatchAt(t, i, key) ==
    IF /\ At(t, i, QUOTE) /\ At(t, i + 1, key) /\ At(t, i + 2, QUOTE)
       /\ At(t, i + 3, ":")
       /\ At(t, SkipWs(t, i + 4), QUOTE)
    THEN [from |-> SkipWs(t, i + 4) + 1, to |-> ValueEnd(t, SkipWs(t, i + 4) + 1)]
    ELSE [from |-> 0, to |-> 0]

RECURSIVE Escaped(_)
\* content.replace(/\n/g, '\\n').replace(/\r/g, '\\r').replace(/\t/g, '\\t')
Escaped(cs) ==
    IF cs = <<>>
    THEN <<>>
    ELSE (CASE Head(cs) = LF -> <<BS, "n">>
            [] Head(cs) = CR -> <<BS, "r">>
            [] Head(cs) = TAB -> <<BS, "t">>
            [] OTHER -> <<Head(cs)>>) \o Escaped(Tail(cs))

RECURSIVE RepairField(_, _, _)
\* Every match, left to right, is replaced by "key": "${escaped}"
RepairField(t, i, key) ==
    IF i > Len(t)
    THEN <<>>
    ELSE LET m == FieldMatchAt(t, i, key)
         IN  IF m.to # 0
             THEN <<QUOTE, key, QUOTE, ":", SP, QUOTE>>
                      \o Escaped(SubSeq(t, m.from, m.to - 1)) \o <<QUOTE>>
                      \o RepairField(t, m.to + 1, key)
             ELSE <<t[i]>> \o RepairField(t, i + 1, key)

\* cleaned, after both replacements
Cleaned(t) == RepairField(RepairField(Trim(t), 1, "content"), 1, "shareableQuote")

\* Variant: no repair pass, the second parse gets the text as it was.
ParseWithoutRepair(t) == JSONParse(t)

\* parsedJson: JSON.parse(claudeResponse), or JSON.parse(cleaned) when that throws
ParseWithRepair(t) ==
    IF JSONParse(t).ok THEN JSONParse(t) ELSE JSONParse(Cleaned(t))

\* if (parsedJson && parsedJson.name && parsedJson.content)
IsStory(p) ==
    /\ p.ok
    /\ Truthy(p.val)
    /\ Truthy(Property(p.val, "name"))
    /\ Truthy(Property(p.val, "content"))

\* claudeResponse after: if (jsonMatch) { claudeResponse = jsonMatch[1]; }
ClaudeResponse(text) ==
    IF JsonMatch(text).found THEN JsonMatch(text).group ELSE text

\* What lines 151-220 store as currentResult.response for the text of the
\* provider's envelope
Normalize(text) ==
    LET claudeResponse == ClaudeResponse(text)
        parsedJson == ParseWithRepair(claudeResponse)
    IN  IF IsStory(parsedJson)
        THEN [story |-> TRUE, payload |-> parsedJson.val]
        ELSE [story |-> FALSE, payload |-> RawText(claudeResponse)]

(***************************************************************************)
(* The texts the provider is made to return: a Story object written out    *)
(* member by member, bare, in a json fence, or in a fence with prose       *)
(* around it; or no JSON at all.                                           *)
(***************************************************************************)
\* A member of the object: left out, null, or a string given by the
\* characters between its quotes
Member(use, raw) == [use |-> use, raw |-> raw]
NameOptions ==
    {Member("absent", <<>>), Member("null", <<>>), Member("string", <<>>),
     Member("string", <<"x">>)}
ContentOptions ==
    {Member("absent", <<>>), Member("string", <<>>), Member("string", <<"x">>),
     Member("string", <<"x", BS, "n", "x">>),
     Member("string", <<"x", LF, "x">>),
     Member("string", <<TAB, "x">>),
     Member("string", <<"x", CR, LF>>),
     Member("string", <<BS, QUOTE, "x", BS, QUOTE, LF>>)}
QuoteOptions ==
    {Member("absent", <<>>), Member("string", <<"x">>), Member("string", <<"x", LF>>)}
Wraps == {"bare", "fenced", "prose"}
\* "key":"v"   "key": "v"   "key" : "v"
Colons == {"tight", "after", "before"}
Layouts == {"compact", "pretty"}

TextDescriptors ==
    [wrap : Wraps, shape : {"object", "truncated"}, name : NameOptions,
     content : ContentOptions, quote : QuoteOptions, colon : Colons,
     layout : Layouts]
    \cup
    [wrap : Wraps, shape : {"words"}, name : {Member("absent", <<>>)},
     content : {Member("absent", <<>>)}, quote : {Member("absent", <<>>)},
     colon : {"tight"}, layout : {"compact"}]
NoDescriptor ==
    [wrap |-> "none", shape |-> "none", name |-> Member("absent", <<>>),
     content |-> Member("absent", <<>>), quote |-> Member("absent", <<>>),
     colon |-> "tight", layout |-> "compact"]

ColonText(colon) ==
    CASE colon = "after" -> <<":", SP>>
      [] colon = "before" -> <<SP, ":">>
      [] OTHER -> <<":">>

\* The members that are written out, in the order name, title, content,
\* shareableQuote
MembersOf(d) ==
    LET All == <<[key |-> "name", m |-> d.name],
                 [key |-> "title", m |-> Member("string", <<"x">>)],
                 [key |-> "content", m |-> d.content],
                 [key |-> "shareableQuote", m |-> d.quote]>>
        Present(e) == e.m.use # "absent"
    IN  SelectSeq(All, Present)

MemberText(e, colon) ==
    <<QUOTE, e.key, QUOTE>> \o ColonText(colon)
        \o (IF e.m.use = "null" THEN <<"null">> ELSE <<QUOTE>> \o e.m.raw \o <<QUOTE>>)

RECURSIVE MembersText(_, _, _)
MembersText(es, colon, layout) ==
    IF es = <<>>
    THEN <<>>
    ELSE MemberText(Head(es), colon)
             \o (IF Tail(es) = <<>>
                 THEN <<>>
                 ELSE (IF layout = "pretty" THEN <<",", LF, SP>> ELSE <<",">>)
                          \o MembersText(Tail(es), colon, layout))

ObjectText(d) ==
    <<"{">> \o (IF d.layout = "pretty" THEN <<LF, SP>> ELSE <<>>)
        \o MembersText(MembersOf(d), d.colon, d.layout)
        \o (IF d.layout = "pretty" THEN <<LF>> ELSE <<>>)
        \o (IF d.shape = "truncated" THEN <<>> ELSE <<"}">>)

\* response.data.content[0].text for descriptor d
Render(d) ==
    LET body == IF d.shape = "words" THEN <<"x", SP, "x">> ELSE ObjectText(d)
        fenced == <<FENCE, "json", LF>> \o body \o <<LF, FENCE>>
    IN  CASE d.wrap = "fenced" -> fenced
          [] d.wrap = "prose" -> <<"x", SP, "x", LF>> \o fenced \o <<LF, "x">>
          [] OTHER -> body

(***************************************************************************)
(* executeClaudeAPICall(prompt), called by cycle c.                        *)
(***************************************************************************)
\* axios.post(...): the request is on the wire until it settles
PostUpstream(s, c) ==
    [s EXCEPT !.inFlight = @ \cup {c},
              !.hist.posted[c] = @ + 1,
              !.hist.upstream[c] = "pending"]

NoKeyError == "CLAUDE_API_KEY not configured"

\* if (!apiKey) { currentResult = {...}; logRequest(prompt, null, error); return; }
ExecuteWithoutKey(s, c) ==
    LogRequest(Write(s, c, Result(Str("API key not configured"), FALSE, clock, NoKeyError)),
               c, NoPayload, NoKeyError)

\* Variant: the return after the missing-key branch is forgotten.
ExecuteClaudeAPICallNoReturn(s, c) ==
    LET s1 == [s EXCEPT !.hist.execCalls[c] = @ + 1]
    IN  PostUpstream(IF ~claudeApiKey THEN ExecuteWithoutKey(s1, c) ELSE s1, c)

\* The synchronous part of the call, up to the return or to await axios.post.
ExecuteClaudeAPICall(s, c) ==
    LET s1 == [s EXCEPT !.hist.execCalls[c] = @ + 1]
    IN  IF ~claudeApiKey THEN ExecuteWithoutKey(s1, c) ELSE PostUpstream(s1, c)

\* The text of the provider's envelope, response.data.content[0].text
UpstreamText(o) ==
    IF o = "story"
    THEN <<"{", QUOTE, "name", QUOTE, ":", QUOTE, "x", QUOTE, ",",
           QUOTE, "content", QUOTE, ":", QUOTE, "x", QUOTE, "}">>
    ELSE <<"x", SP, "x">>

\* parsedJson for the Story text above (name and content non-empty)
StoryObject ==
    JsonObject((<<"name">> :> RawText(<<"x">>)) @@ (<<"content">> :> RawText(<<"x">>)))

\* Variant: a text that is not a Story is thrown as a failure.
HandleResponseStrict(s, c, o) ==
    IF o \in UpstreamFailures \/ ~Normalize(s.hist.text[c]).story
    THEN [s EXCEPT !.exc = "Invalid JSON in response"]
    ELSE LET response == Normalize(s.hist.text[c]).payload
         IN  LogRequest(Write(s, c, Result(response, FALSE, clock, NULL)),
                        c, response, NULL)

\* The try block after the await: the envelope check, the normalisation, the
\* store write and the success record.  A failure leaves its message in exc.
HandleResponse(s, c, o) ==
    IF o \in UpstreamFailures
    THEN [s EXCEPT !.exc = FailureMessage(o)]
    ELSE LET response == Normalize(s.hist.text[c]).payload
         IN  LogRequest(Write(s, c, Result(response, FALSE, clock, NULL)),
                        c, response, NULL)

\* Variant: the catch block stores the error Result and forgets logRequest.
HandleFailureNoLog(s, c) ==
    IF s.exc = NoExc
    THEN s
    ELSE Write([s EXCEPT !.exc = NoExc], c,
               Result(Str("Error processing request"), FALSE, clock, UserError(s.exc)))

\* Variant: the catch block stores error.message as the payload.
HandleFailureRawDetail(s, c) ==
    IF s.exc = NoExc
    THEN s
    ELSE LogRequest(Write([s EXCEPT !.exc = NoExc], c,
                          Result(Str(s.exc), FALSE, clock, UserError(s.exc))),
                    c, NoPayload, s.exc)

\* catch (error) { currentResult = {...}; logRequest(prompt, null, error.message); }
HandleFailure(s, c) ==
    IF s.exc = NoExc
    THEN s
    ELSE LogRequest(Write([s EXCEPT !.exc = NoExc], c,
                          Result(Str("Error processing request"), FALSE, clock,
                                 UserError(s.exc))),
                    c, NoPayload, s.exc)

\* The rest of executeClaudeAPICall once axios.post has settled with outcome o.
ResumeExecute(s, c) == HandleFailure(HandleResponse(s, c, s.hist.upstream[c]), c)

(***************************************************************************)
(* The prompt of a cycle: the trimmed content of prompt.txt followed by    *)
(* the generation metadata and the critical instructions.                  *)
(***************************************************************************)
\* What Math.random() returns, given by the base-36 digits of its fraction
\* (0.5 is 0.i): two values that differ in the first digit only, and 0.5
Randoms ==
    {<<"a", "b", "c", "d", "e", "f", "g">>,
     <<"z", "b", "c", "d", "e", "f", "g">>,
     <<"i">>}
\* Contents of prompt.txt that are not empty after trim
PromptContents == {<<SP, "x", SP, "x", LF>>, <<"x", LF, "x">>}

\* Number.prototype.toString(36) of a value in [0, 1)
ToString36(r) == IF r = <<>> THEN <<"0">> ELSE <<"0", ".">> \o r
\* String.prototype.substring(from)
Substring(t, from) == SubSeq(t, from + 1, Len(t))
\* Math.random().toString(36).substring(7)
RandomSeed(r) == Substring(ToString36(r), 7)
\* new Date().toISOString()
Timestamp(now) == <<"ISO:", ToString(now)>>
\* Date.now() + Math.random(), written out by the template
UniqueId(now, r) == <<ToString(now)>> \o Substring(ToString36(r), 1)
\* Math.floor(Math.random() * 1000000), written out by the template
RandomNumber(r) == <<"floor(1000000*">> \o ToString36(r) \o <<")">>

MetadataHeader == "Generation Metadata (use this to ensure uniqueness):"
InstructionsHeader == "CRITICAL INSTRUCTIONS:"
FieldLabels ==
    <<"- Generation ID: ", "- Timestamp: ", "- Unique Request ID: ", "- Random Seed: ">>
InstructionNumbers == <<"1. ", "2. ", "3. ", "4. ", "5. ">>
Instructions ==
    <<"Generate a story about a COMPLETELY DIFFERENT historical figure than any previous generation",
      "Use the random seed above to select a unique figure",
      "Vary the time period, region, and theme",
      "NEVER repeat the same historical figure",
      "Prioritize lesser-known figures to maximize variety">>

\* Variant: the template without its Random Seed line.
AugmentPromptThreeFields(basePrompt, timestamp, randomSeed, uniqueId, randomNumber) ==
    basePrompt
        \o <<LF, LF, MetadataHeader, LF>>
        \o <<FieldLabels[1]>> \o randomSeed \o <<LF>>
        \o <<FieldLabels[2]>> \o timestamp \o <<LF>>
        \o <<FieldLabels[3]>> \o uniqueId \o <<LF>>
        \o <<LF, InstructionsHeader, LF>>
        \o <<InstructionNumbers[1], Instructions[1], LF>>
        \o <<InstructionNumbers[2], Instructions[2], LF>>
        \o <<InstructionNumbers[3], Instructions[3], LF>>
        \o <<InstructionNumbers[4], Instructions[4], LF>>
        \o <<InstructionNumbers[5], Instructions[5]>>

\* const prompt = the template literal of lines 280-293
AugmentPrompt(basePrompt, timestamp, randomSeed, uniqueId, randomNumber) ==
    basePrompt
        \o <<LF, LF, MetadataHeader, LF>>
        \o <<FieldLabels[1]>> \o randomSeed \o <<LF>>
        \o <<FieldLabels[2]>> \o timestamp \o <<LF>>
        \o <<FieldLabels[3]>> \o uniqueId \o <<LF>>
        \o <<FieldLabels[4]>> \o randomNumber \o <<LF>>
        \o <<LF, InstructionsHeader, LF>>
        \o <<InstructionNumbers[1], Instructions[1], LF>>
        \o <<InstructionNumbers[2], Instructions[2], LF>>
        \o <<InstructionNumbers[3], Instructions[3], LF>>
        \o <<InstructionNumbers[4], Instructions[4], LF>>
        \o <<InstructionNumbers[5], Instructions[5]>>

\* Lines 262-293 for a prompt file holding content, the three Math.random()
\* calls returning r1, r2, r3 at time now
Augmentation(content, now, r1, r2, r3) ==
    [content |-> content,
     basePrompt |-> Trim(content),
     time |-> now,
     randomSeed |-> RandomSeed(r1),
     prompt |-> AugmentPrompt(Trim(content), Timestamp(now), RandomSeed(r1),
                              UniqueId(now, r2), RandomNumber(r3))]

(***************************************************************************)
(* processPromptFile(), the single-flight coordinator.                     *)
(***************************************************************************)
RECURSIVE ProcessPromptFile(_, _)

\* nextResolve(): the resolve handle of waiter c is invoked; the queue promise
\* is resolved by the first invocation only.
InvokeResolve(s, c) ==
    LET s1 == [s EXCEPT !.hist.invoked[c] = @ + 1]
    IN  IF s1.waiter[c].inner = "pending"
        THEN LET s2 == [s1 EXCEPT !.waiter[c].inner = "resolved"]
             IN  IF s2.waiter[c].linked THEN Enqueue(s2, "adopt", c) ELSE s2
        ELSE s1

\* processPromptFile().then(nextResolve): nextResolve is a reaction of the
\* promise of the run made for waiter n.
ThenNextResolve(s, n) ==
    CASE s.cyclePromise[n] = "fulfilled" -> Enqueue(s, "callResolve", n)
      [] s.cyclePromise[n] = "pending" -> [s EXCEPT !.waiter[n].chained = TRUE]
      [] OTHER -> s

\* Variant: the waiter is handed the finished cycle's result, no cycle of its own.
ReleaseWaiterCoalesced(s, n) == InvokeResolve(s, n)

\* Variant: nextResolve(); processPromptFile();
ReleaseWaiterEarly(s, n) == ProcessPromptFile(InvokeResolve(s, n), n)

\* Variant: nextResolve() at once, and again when the waiter's run has ended.
ReleaseWaiterTwice(s, n) == ThenNextResolve(ProcessPromptFile(InvokeResolve(s, n), n), n)

\* processPromptFile().then(nextResolve)
ReleaseWaiter(s, n) == ThenNextResolve(ProcessPromptFile(s, n), n)

\* Variant: requestQueue.pop()
QueuePop(q) == [next |-> q[Len(q)], rest |-> SubSeq(q, 1, Len(q) - 1)]

\* requestQueue.shift()
QueueShift(q) == [next |-> Head(q), rest |-> Tail(q)]

\* Variant: the finally block clears the flag and leaves the queue alone.
FinallyNoDrain(s, c) == [s EXCEPT !.isCurrentlyProcessing = FALSE]

\* Variant: the flag is cleared at the end of the try block, after the await,
\* so a run that returns early or throws before the await leaves it set.
FinallyClearAfterAwaitOnly(s, c) ==
    LET s1 == IF s.cycle[c] = "awaiting"
              THEN [s EXCEPT !.isCurrentlyProcessing = FALSE]
              ELSE s
    IN  IF Len(s1.requestQueue) > 0
        THEN LET sh == QueueShift(s1.requestQueue)
             IN  ReleaseWaiter([s1 EXCEPT !.requestQueue = sh.rest], sh.next)
        ELSE s1

\* Variant: after a failed cycle the queue is emptied, the waiters are dropped.
FinallyDropQueueOnFailure(s, c) ==
    LET s1 == [s EXCEPT !.isCurrentlyProcessing = FALSE]
    IN  CASE s1.currentResult.error # NULL -> [s1 EXCEPT !.requestQueue = <<>>]
          [] Len(s1.requestQueue) > 0 ->
                LET sh == QueueShift(s1.requestQueue)
                IN  ReleaseWaiter([s1 EXCEPT !.requestQueue = sh.rest], sh.next)
          [] OTHER -> s1

\* finally { isCurrentlyProcessing = false; if (requestQueue.length > 0) {...} }
Finally(s, c) ==
    LET s1 == [s EXCEPT !.isCurrentlyProcessing = FALSE]
    IN  IF Len(s1.requestQueue) > 0
        THEN LET sh == QueueShift(s1.requestQueue)
             IN  ReleaseWaiter([s1 EXCEPT !.requestQueue = sh.rest], sh.next)
        ELSE s1

\* Variant: no catch block, the exception leaves processPromptFile.
CatchBlockRethrow(s, c) == s

\* catch (error) { currentResult = {...} } of processPromptFile
CatchBlock(s, c) ==
    IF s.exc = NoExc
    THEN s
    ELSE Write([s EXCEPT !.exc = NoExc], c,
               Result(Str("Error processing request"), FALSE, clock, UserError(s.exc)))

\* The async function returns (or throws exc): its promise settles and the
\* reaction registered on it, if any, is queued.
Settle(s, c, exc) ==
    LET st == IF exc = NoExc THEN "fulfilled" ELSE "rejected"
        s1 == [s EXCEPT !.cycle[c] = "done", !.cyclePromise[c] = st]
    IN  CASE s1.waiter[c].chained ->
                IF st = "fulfilled" THEN Enqueue(s1, "callResolve", c) ELSE s1
          [] s1.handler[c] = "awaiting" /\ s1.hist.role[c] = "driver" ->
                Enqueue(s1, "resume", c)
          [] OTHER -> s1

\* The end of a run: catch, then finally with the exception (if any) set
\* aside, then the promise settles.
FinishCycle(s, c) ==
    LET s1 == CatchBlock(s, c)
        s2 == Finally([s1 EXCEPT !.exc = NoExc], c)
    IN  Settle(s2, c, s1.exc)

\* Variant: only the flag is set, the previous payload stays in place.
MarkProcessingFlagOnly(s, c) ==
    [s EXCEPT !.currentResult.isProcessing = TRUE,
              !.currentResult.error = NULL,
              !.hist.writer = c]

\* Variant: the placeholder is stored, isProcessing is left as it was.
MarkProcessingNoFlag(s, c) ==
    [s EXCEPT !.currentResult.response = Str("Processing..."),
              !.currentResult.error = NULL,
              !.hist.writer = c]

\* currentResult.isProcessing = true; .response = 'Processing...'; .error = null
MarkProcessing(s, c) ==
    [s EXCEPT !.currentResult.isProcessing = TRUE,
              !.currentResult.response = Str("Processing..."),
              !.currentResult.error = NULL,
              !.hist.writer = c]

\* await executeClaudeAPICall(prompt): the run is suspended; when the call
\* returned without awaiting, its promise is fulfilled and the continuation
\* is queued at once.
AwaitExecute(s, c) ==
    IF c \in s.inFlight
    THEN [s EXCEPT !.cycle[c] = "posted"]
    ELSE Enqueue([s EXCEPT !.cycle[c] = "awaiting"], "contPPF", c)

\* Variant: no fs.existsSync check and no empty-prompt check; a missing file
\* makes fs.readFileSync throw, an empty prompt is sent upstream.
TryBlockNoSourceCheck(s, c) ==
    LET s1 == [s EXCEPT !.hist.promptSeen[c] = promptFile]
    IN  IF promptFile \in {"missing", "unreadable"}
        THEN [s1 EXCEPT !.exc = ReadFailureMessage]
        ELSE AwaitExecute(ExecuteClaudeAPICall(MarkProcessing(s1, c), c), c)

\* The try block, to its return, its throw or its await.
TryBlock(s, c) ==
    LET s1 == [s EXCEPT !.hist.promptSeen[c] = promptFile]
    IN  CASE promptFile = "missing" ->
                Write(s1, c, Result(Str("prompt.txt file not found"), FALSE, NoTime,
                                    "File not found"))
          [] promptFile = "unreadable" -> [s1 EXCEPT !.exc = ReadFailureMessage]
          [] promptFile = "empty" ->
                Write(s1, c, Result(Str("Please add your prompt to prompt.txt"), FALSE,
                                    NoTime, NULL))
          [] OTHER -> AwaitExecute(ExecuteClaudeAPICall(MarkProcessing(s1, c), c), c)

\* A run that passed the guard: the generation cycle made for caller c.
RunCycle(s, c) ==
    LET s1 == [s EXCEPT !.isCurrentlyProcessing = TRUE,
                        !.cycle[c] = "running",
                        !.cyclePromise[c] = "pending",
                        !.hist.role[c] = IF @ = "none" THEN "driver" ELSE @,
                        !.hist.started = Append(@, c)]
        s2 == TryBlock(s1, c)
    IN  IF s2.cycle[c] = "running" THEN FinishCycle(s2, c) ELSE s2

\* if (isCurrentlyProcessing) return new Promise(resolve => requestQueue.push(resolve))
JoinQueue(s, c) ==
    Enqueue([s EXCEPT !.requestQueue = Append(@, c),
                      !.waiter[c].inner = "pending",
                      !.waiter[c].outer = "pending",
                      !.hist.role[c] = "waiter",
                      !.hist.enqueued = Append(@, c)],
            "thenable", c)

\* Variant: the isCurrentlyProcessing guard is missing.
ProcessPromptFileUnguarded(s, c) == RunCycle(s, c)

ProcessPromptFile(s, c) ==
    IF s.isCurrentlyProcessing THEN JoinQueue(s, c) ELSE RunCycle(s, c)

(***************************************************************************)
(* Request handlers                                                        *)
(***************************************************************************)
NoReply == [status |-> "none"]

\* await processPromptFile(): the handler waits for the promise it was given,
\* its own run's for a driver, the queue promise for a waiter.
HandlerAwait(s, c) ==
    LET s1 == [s EXCEPT !.handler[c] = "awaiting"]
    IN  IF s1.hist.role[c] = "driver" /\ s1.cyclePromise[c] \in {"fulfilled", "rejected"}
        THEN Enqueue(s1, "resume", c)
        ELSE s1

HandlerPromise(s, c) ==
    IF s.hist.role[c] = "waiter" THEN s.waiter[c].outer ELSE s.cyclePromise[c]

\* getResultHandler after the await: res.json(currentResult), or the 500 body
GetResultReply(s, c) ==
    IF HandlerPromise(s, c) = "rejected"
    THEN [status |-> "500",
          body |-> Result(Str("Error generating story"), FALSE, clock,
                          UserError("rejected"))]
    ELSE [status |-> "200", body |-> s.currentResult]

\* Variant: a cycle that stored an error Result is reported as a failure.
PostRefreshReplyByOutcome(s, c) ==
    IF HandlerPromise(s, c) = "rejected" \/ s.currentResult.error # NULL
    THEN [status |-> "500", body |-> [error |-> "Failed to refresh content", success |-> FALSE]]
    ELSE [status |-> "200", body |-> [message |-> "Refresh triggered", success |-> TRUE]]

\* postRefreshHandler after the await
PostRefreshReply(s, c) ==
    IF HandlerPromise(s, c) = "rejected"
    THEN [status |-> "500", body |-> [error |-> "Failed to refresh content", success |-> FALSE]]
    ELSE [status |-> "200", body |-> [message |-> "Refresh triggered", success |-> TRUE]]

ResumeHandler(s, c) ==
    [s EXCEPT !.handler[c] = "replied",
              !.reply[c] = IF s.hist.kind[c] = "refresh"
                           THEN PostRefreshReply(s, c)
                           ELSE GetResultReply(s, c),
              !.hist.replyWriter[c] = s.hist.writer]

(***************************************************************************)
(* The middleware in front of POST /api/refresh: app.use(rateLimiters      *)
(* .general) for every request, then security.requireApiKey on the route.  *)
(* One client is followed, so the limiter's store holds one counter.       *)
(***************************************************************************)
\* createRateLimiter(15 * 60 * 1000, 100, ...): max of rateLimiters.general
GeneralMax == 100
\* createRateLimiter(60 * 60 * 1000, 10, ...): max of rateLimiters.refresh
RefreshMax == 10
\* Requests of the client that still arrive once the general limit is reached
MaxOverLimit == 1
\* Fifteen-minute windows of the general limiter that elapse
MaxWindows == 1

\* The bytes of Buffer.from(string): one for a letter or digit, two for e-acute
Utf8(cs) ==
    LET Enc(ch) == IF ch = "e-acute" THEN <<"0xC3", "0xA9">> ELSE <<ch>>
        F[i \in 0..Len(cs)] == IF i = 0 THEN <<>> ELSE F[i - 1] \o Enc(cs[i])
    IN  F[Len(cs)]

Key(cs) == RawText(cs)
\* What .env can give APP_API_KEY: nothing, the empty string, a key
ExpectedKeys == {Undefined, Key(<<>>), Key(<<"k", "1">>)}
\* req.headers['x-api-key']
HeaderValues ==
    {Undefined, Key(<<>>), Key(<<"k", "1">>), Key(<<"j", "1">>), Key(<<"k">>),
     Key(<<"e-acute">>)}
\* req.query.apikey
QueryValues == {Undefined, Key(<<"k", "1">>), Key(<<"k", "1", "1">>)}

Answer(status, error) == [status |-> status, error |-> error]
PassedOn == Answer("next", NULL)

\* Variant: the keys are compared by length only.
RequireApiKeyLengthOnly(header, query) ==
    LET providedKey == IF Truthy(header) THEN header ELSE query
    IN  CASE ~Truthy(appApiKey) -> PassedOn
          [] ~Truthy(providedKey) -> Answer("401", "API key required")
          [] Len(Utf8(providedKey.chars)) # Len(Utf8(appApiKey.chars)) ->
                Answer("401", "Invalid API key")
          [] OTHER -> PassedOn

\* security.requireApiKey(req, res, next)
RequireApiKey(header, query) ==
    LET providedKey == IF Truthy(header) THEN header ELSE query
        expectedKey == appApiKey
    IN  CASE ~Truthy(expectedKey) -> PassedOn
          [] ~Truthy(providedKey) -> Answer("401", "API key required")
          [] Len(Utf8(providedKey.chars)) # Len(Utf8(expectedKey.chars)) ->
                Answer("401", "Invalid API key")
          [] Utf8(providedKey.chars) # Utf8(expectedKey.chars) ->
                Answer("401", "Invalid API key")
          [] OTHER -> PassedOn

\* The rate limiter of express-rate-limit: the request is counted, and it is
\* answered 429 once the count of the window exceeds max
RateLimit(hits, max, message) ==
    IF hits > max THEN Answer("429", message) ELSE PassedOn

\* What the middleware in front of postRefreshHandler does with the request
\* that is number hits of the general limiter's window
RefreshMiddleware(hits, header, query) ==
    LET general == RateLimit(hits, GeneralMax, "Too many requests, please try again later.")
    IN  IF general # PassedOn THEN general ELSE RequireApiKey(header, query)

(***************************************************************************)
(* The polling variant of the server: processPromptFile waits 100 ms when  *)
(* a generation is under way and returns if it still is; there is no       *)
(* queue.  GET /api/result is followed.                                    *)
(***************************************************************************)
\* logRequest(prompt, response, error) of the polling variant
PollingLogRequest(s, c, error) ==
    IF logWritable
    THEN [s EXCEPT !.logFile =
                       Append(@, [prompt |-> c,
                                  kind |-> IF error # NULL THEN "ERROR" ELSE "RESPONSE",
                                  body |-> Str(IF error # NULL THEN error ELSE "[LOGGED]")])]
    ELSE [s EXCEPT !.hist.logFailed = @ \cup {c}]

\* currentResult = {...} of the polling variant; cached is the last Result
\* stored as a whole
PollingWrite(s, c, r) == [Write(s, c, r) EXCEPT !.hist.cached = r]

\* A string value as JSON.stringify writes it
JsonString(cs) ==
    LET Enc(ch) == CASE ch = QUOTE -> <<BS, QUOTE>>
                     [] ch = BS -> <<BS, BS>>
                     [] ch = LF -> <<BS, "n">>
                     [] ch = CR -> <<BS, "r">>
                     [] ch = TAB -> <<BS, "t">>
                     [] OTHER -> <<ch>>
        F[i \in 0..Len(cs)] == IF i = 0 THEN <<>> ELSE F[i - 1] \o Enc(cs[i])
    IN  <<QUOTE>> \o F[Len(cs)] \o <<QUOTE>>

\* JSON.stringify(parsedJson) for an object of strings and nulls; the members
\* come in the order the text gave them: name, title, content, shareableQuote
JSONStringify(v) ==
    LET keys == SelectSeq(<<"name", "title", "content", "shareableQuote">>,
                          LAMBDA k : <<k>> \in DOMAIN v.fields)
        MemberOf(k) ==
            <<QUOTE, k, QUOTE, ":">>
                \o (IF v.fields[<<k>>].type = "string"
                    THEN JsonString(v.fields[<<k>>].chars)
                    ELSE <<"null">>)
        F[i \in 0..Len(keys)] ==
            IF i = 0 THEN <<>>
            ELSE F[i - 1] \o (IF i > 1 THEN <<",">> ELSE <<>>) \o MemberOf(keys[i])
    IN  <<"{">> \o F[Len(keys)] \o <<"}">>

RECURSIVE StripTags(_, _)
\* input.replace(/<[^>]*>?/gm, ''): from a < to the next > (or to the end)
StripTags(t, i) ==
    CASE i > Len(t) -> <<>>
      [] At(t, i, "<") ->
            LET ends == {j \in (i + 1)..Len(t) : t[j] = ">"}
            IN  IF ends = {}
                THEN <<>>
                ELSE StripTags(t, (CHOOSE j \in ends : \A k \in ends : j <= k) + 1)
      [] OTHER -> <<t[i]>> \o StripTags(t, i + 1)

\* security.sanitizeInput(input) for a string
SanitizeInput(cs) ==
    LET stripped == StripTags(cs, 1)
        Esc(ch) == CASE ch = "&" -> "&amp;"
                     [] ch = "<" -> "&lt;"
                     [] ch = ">" -> "&gt;"
                     [] ch = QUOTE -> "&quot;"
                     [] ch = "'" -> "&#x27;"
                     [] ch = "/" -> "&#x2F;"
                     [] OTHER -> ch
    IN  [i \in 1..Len(stripped) |-> Esc(stripped[i])]

\* currentResult.response for the text of the provider's envelope
PollingNormalize(text) ==
    LET claudeResponse == ClaudeResponse(text)
        parsedJson == JSONParse(claudeResponse)
    IN  RawText(SanitizeInput(
            IF /\ parsedJson.ok
               /\ Truthy(Property(parsedJson.val, "name"))
               /\ Truthy(Property(parsedJson.val, "content"))
            THEN JSONStringify(parsedJson.val)
            ELSE claudeResponse))

\* executeClaudeAPICall to its return or to await axios.post
PollingExecute(s, c) ==
    LET s1 == [s EXCEPT !.hist.execCalls[c] = @ + 1]
    IN  IF ~claudeApiKey
        THEN PollingLogRequest(
                 PollingWrite(s1, c, Result(Str("API key not configured"), FALSE, clock,
                                            NoKeyError)),
                 c, NoKeyError)
        ELSE PostUpstream(s1, c)

\* executeClaudeAPICall once axios.post has settled: the try block, then the
\* catch block
PollingResumeExecute(s, c) ==
    LET o == s.hist.upstream[c]
    IN  IF o \in UpstreamFailures
        THEN PollingLogRequest(
                 PollingWrite(s, c, Result(Str("Error processing request"), FALSE, clock,
                                           UserError(FailureMessage(o)))),
                 c, FailureMessage(o))
        ELSE PollingLogRequest(
                 PollingWrite(s, c, Result(PollingNormalize(s.hist.text[c]), FALSE, clock,
                                           NULL)),
                 c, NULL)

\* The promise of processPromptFile settles; the handler waiting for it resumes
PollingSettle(s, c) ==
    LET s1 == [s EXCEPT !.cycle[c] = "done", !.cyclePromise[c] = "fulfilled"]
    IN  IF s1.handler[c] = "awaiting" THEN Enqueue(s1, "resume", c) ELSE s1

\* The try block of processPromptFile and its catch block, to the return or
\* to await executeClaudeAPICall(prompt)
PollingRun(s, c) ==
    LET s1 == [s EXCEPT !.cycle[c] = "running",
                        !.hist.role[c] = "driver",
                        !.hist.started = Append(@, c),
                        !.hist.promptSeen[c] = promptFile]
    IN  CASE promptFile = "missing" ->
                PollingSettle(PollingWrite(s1, c, Result(Str("prompt.txt file not found"),
                                                         FALSE, NoTime, "File not found")), c)
          [] promptFile = "unreadable" ->
                PollingSettle(PollingWrite(s1, c, Result(Str("Error processing request"),
                                                         FALSE, clock,
                                                         UserError(ReadFailureMessage))), c)
          [] promptFile = "empty" ->
                PollingSettle(PollingWrite(s1, c,
                                           Result(Str("Please add your prompt to prompt.txt"),
                                                  FALSE, NoTime, NULL)), c)
          [] OTHER -> AwaitExecute(PollingExecute(MarkProcessing(s1, c), c), c)

\* if (currentResult.isProcessing) { await new Promise(r => setTimeout(r, 100)); ..
PollingProcessPromptFile(s, c) ==
    IF s.currentResult.isProcessing
    THEN [s EXCEPT !.cycle[c] = "polling", !.hist.polled[c] = "waiting"]
    ELSE PollingRun(s, c)

\* Variant: the flag is not read again after the wait.
PollingAfterTimerNoRecheck(s, c) == PollingRun([s EXCEPT !.hist.polled[c] = "free"], c)

\* .. if (currentResult.isProcessing) return; }  when the timer has fired
PollingAfterTimer(s, c) ==
    IF s.currentResult.isProcessing
    THEN PollingSettle([s EXCEPT !.hist.polled[c] = "stillProcessing",
                                 !.hist.role[c] = "poller",
                                 !.hist.stale[c] = s.hist.cached], c)
    ELSE PollingRun([s EXCEPT !.hist.polled[c] = "free"], c)

\* The handler of GET /api/result: await processPromptFile()
PollingHandler(s, c) ==
    LET s1 == [PollingProcessPromptFile(s, c) EXCEPT !.handler[c] = "awaiting"]
    IN  IF s1.cyclePromise[c] = "fulfilled" THEN Enqueue(s1, "resume", c) ELSE s1

(***************************************************************************)
(* The two front ends: the page script (fetchResult, displayStoryContent)  *)
(* and the terminal formatter (fetchAndFormatStory).  res.json and the     *)
(* client's JSON decoding carry a Result of strings, nulls, booleans and   *)
(* objects of these over as it is.  What the user is shown is a view: its  *)
(* kind and what it is made from.                                          *)
(***************************************************************************)
View(kind, detail) == [view |-> kind, detail |-> detail]

\* JSON.parse(data.response) for a string payload; the fixed messages of the
\* server all begin with a letter, which no JSON text does
FrontParse(response) ==
    IF "chars" \in DOMAIN response THEN JSONParse(response.chars) ELSE ParseFailure

\* displayStoryContent(data); "escaped" is an exception leaving the function
DisplayStoryContent(data) ==
    LET response == data.response
        parsed == CASE response.type = "object" -> Parsed(response, 0)
                    [] response.type = "string" -> FrontParse(response)
                    [] OTHER -> ParseFailure
        storyData == parsed.val
        rendered == /\ parsed.ok
                    /\ Truthy(Property(storyData, "name"))
                    /\ Truthy(Property(storyData, "content"))
                    /\ Property(storyData, "content").type = "string"
    IN  CASE data.error # NULL -> View("error", Str(data.error))
          [] data.isProcessing -> View("loading", NoPayload)
          [] rendered -> View("story", storyData)
          \* catch (e): data.response.substring exists for a string only
          [] response.type = "object" -> View("escaped", NoPayload)
          [] OTHER -> View("parsingError", NoPayload)

\* fetchResult(): the body of a 200 reply goes to displayStoryContent; any
\* exception ends in the catch block
FetchResult(r) ==
    IF r.status # "200" \/ DisplayStoryContent(r.body) = View("escaped", NoPayload)
    THEN View("connectionError", NoPayload)
    ELSE DisplayStoryContent(r.body)

\* fetchAndFormatStory() of format-story.js
FetchAndFormatStory(r) ==
    LET data == r.body
        response == data.response
        parsed == IF response.type = "string" THEN FrontParse(response) ELSE Parsed(response, 0)
        story == parsed.val
    IN  CASE r.status # "200" -> View("failed", NoPayload)
          [] data.error # NULL -> View("error", Str(data.error))
          [] data.isProcessing -> View("loading", NoPayload)
          [] ~parsed.ok -> View("plainText", response)
          \* story.name of null, story.content.split of what is not a string
          [] Property(story, "content").type # "string" -> View("failed", NoPayload)
          [] OTHER -> View("story", story)

(***************************************************************************)
(* CSRF tokens of security.js: generateCsrfToken and validateCsrfToken     *)
(* over the Map csrfTokens.  A token is 32 bytes of crypto.randomBytes in  *)
(* hex: a value no earlier call returned.  Tokens are numbered in the      *)
(* order of their issue; a request may present any of them, issued or not. *)
(* Date.now() is the clock, read once per call.  A request has passed      *)
(* express.json, so req.body is an object.                                 *)
(***************************************************************************)
CsrfLifetime == 60 * 60 * 1000
MaxTokens == 2
MaxTimeSteps == 2
Tokens == 1..MaxTokens
\* No x-csrf-token header, no _csrf in the body: undefined
NoToken == 0
Methods == {"GET", "HEAD", "POST"}
NoTokens == [t \in {} |-> 0]

\* The Map without the tokens that the predicate rejects
Keep(store, Wanted(_)) == [t \in {u \in DOMAIN store : Wanted(u)} |-> store[t]]

\* Variant: the expired tokens are left in the Map.
GenerateCsrfTokenNoCleanup(store, token, now) ==
    [t \in DOMAIN store \cup {token} |->
        IF t = token THEN now + CsrfLifetime ELSE store[t]]

\* generateCsrfToken(): csrfTokens after the call that returns token
GenerateCsrfToken(store, token, now) ==
    LET set == [t \in DOMAIN store \cup {token} |->
                   IF t = token THEN now + CsrfLifetime ELSE store[t]]
        Fresh(t) == ~(set[t] < now)
    IN  Keep(set, Fresh)

\* Variant: a valid token stays in the Map.
ValidateCsrfTokenKeeps(store, method, header, body, now) ==
    LET token == IF header # NoToken THEN header ELSE body
        Others(t) == t # token
    IN  CASE method \in {"GET", "HEAD"} -> [answer |-> PassedOn, store |-> store]
          [] token = NoToken ->
                [answer |-> Answer("403", "CSRF token missing"), store |-> store]
          [] token \notin DOMAIN store \/ store[token] < now ->
                [answer |-> Answer("403", "Invalid or expired CSRF token"),
                 store |-> Keep(store, Others)]
          [] OTHER -> [answer |-> PassedOn, store |-> store]

\* Variant: the expiry is not looked at.
ValidateCsrfTokenNoExpiry(store, method, header, body, now) ==
    LET token == IF header # NoToken THEN header ELSE body
        Others(t) == t # token
    IN  CASE method \in {"GET", "HEAD"} -> [answer |-> PassedOn, store |-> store]
          [] token = NoToken ->
                [answer |-> Answer("403", "CSRF token missing"), store |-> store]
          [] token \notin DOMAIN store ->
                [answer |-> Answer("403", "Invalid or expired CSRF token"),
                 store |-> Keep(store, Others)]
          [] OTHER -> [answer |-> PassedOn, store |-> Keep(store, Others)]

\* validateCsrfToken(req, res, next): the answer and csrfTokens after it.
\* header is req.headers['x-csrf-token'], body is req.body._csrf.
ValidateCsrfToken(store, method, header, body, now) ==
    LET token == IF header # NoToken THEN header ELSE body
        Others(t) == t # token
    IN  CASE method \in {"GET", "HEAD"} -> [answer |-> PassedOn, store |-> store]
          [] token = NoToken ->
                [answer |-> Answer("403", "CSRF token missing"), store |-> store]
          \* !expires || expires < Date.now(); an expiry is never 0
          [] token \notin DOMAIN store \/ store[token] < now ->
                [answer |-> Answer("403", "Invalid or expired CSRF token"),
                 store |-> Keep(store, Others)]
          [] OTHER -> [answer |-> PassedOn, store |-> Keep(store, Others)]

\* What the last call was and what it did; the tokens issued so far with
\* the time of their issue, and how often each was passed on
NoCall ==
    [op |-> "none", method |-> "none", token |-> NoToken, now |-> 0,
     answer |-> Answer("none", NULL), before |-> NoTokens, after |-> NoTokens,
     acceptedBefore |-> 0]
InitCsrf ==
    [issued |-> NoTokens, accepted |-> [t \in Tokens |-> 0], timeSteps |-> 0,
     last |-> NoCall]

(***************************************************************************)
(* Initial state: the module-level declarations of server.js               *)
(***************************************************************************)
NoWaiter == [inner |-> "none", linked |-> FALSE, outer |-> "none", chained |-> FALSE]

InitHist ==
    [kind |-> [c \in Callers |-> "none"],
     role |-> [c \in Callers |-> "none"],
     started |-> <<>>,
     enqueued |-> <<>>,
     promptSeen |-> [c \in Callers |-> "none"],
     execCalls |-> [c \in Callers |-> 0],
     posted |-> [c \in Callers |-> 0],
     upstream |-> [c \in Callers |-> "none"],
     text |-> [c \in Callers |-> <<>>],
     descriptor |-> [c \in Callers |-> NoDescriptor],
     outcome |-> [c \in Callers |-> NoResult],
     writes |-> [c \in Callers |-> 0],
     invoked |-> [c \in Callers |-> 0],
     writer |-> -1,
     replyWriter |-> [c \in Callers |-> -1],
     logFailed |-> {},
     prompts |-> <<>>,
     gate |-> Answer("none", NULL),
     cached |-> InitialResult,
     polled |-> [c \in Callers |-> "none"],
     stale |-> [c \in Callers |-> NoResult],
     client |-> [c \in Callers |-> "none"],
     view |-> [c \in Callers |-> View("none", NoPayload)],
     csrf |-> InitCsrf]

\* The program's own state, and the parts of the environment that start the
\* same way in every run
InitProgram ==
    /\ logWritable = TRUE
    /\ envEdits = 0
    /\ clock = 1
    /\ currentResult = InitialResult
    /\ requestQueue = <<>>
    /\ isCurrentlyProcessing = FALSE
    /\ inFlight = {}
    /\ microtasks = <<>>
    /\ logFile = <<>>
    /\ booted = FALSE
    /\ cycle = [c \in Callers |-> "none"]
    /\ cyclePromise = [c \in Callers |-> "none"]
    /\ waiter = [c \in Callers |-> NoWaiter]
    /\ handler = [c \in Callers |-> "none"]
    /\ reply = [c \in Callers |-> NoReply]
    /\ generalLimiter = [hits |-> 0, windows |-> 0]
    /\ csrfTokens = NoTokens
    /\ hist = InitHist

\* The coordinator, in every environment it can be started in; APP_API_KEY
\* is not set, and every request below is one that reached its handler
Init ==
    /\ claudeApiKey \in BOOLEAN
    /\ production \in BOOLEAN
    /\ promptFile \in PromptStates
    /\ appApiKey = Undefined
    /\ InitProgram

(***************************************************************************)
(* Macrotasks                                                              *)
(***************************************************************************)
Arrived == {c \in Callers : hist.kind[c] # "none"}
Idle == microtasks = <<>>

\* if (fs.existsSync(promptFile)) { processPromptFile(); }  then app.listen
Boot ==
    /\ ~booted
    /\ booted' = TRUE
    /\ clock' = clock + 1
    /\ IF promptFile # "missing"
       THEN Install(ProcessPromptFile(
                       [State EXCEPT !.hist.kind[Startup] = "startup"], Startup))
       ELSE Install(State)
    /\ UNCHANGED <<csrfTokens, appApiKey, generalLimiter, claudeApiKey, production, promptFile,
                   logWritable, envEdits>>

\* GET /api/result or POST /api/refresh reaches its handler
Request(c, kind) ==
    /\ booted
    /\ Idle
    /\ c \in 1..MaxCallers
    /\ hist.kind[c] = "none"
    /\ \A d \in 1..(c - 1) : hist.kind[d] # "none"
    /\ clock' = clock + 1
    /\ Install(HandlerAwait(ProcessPromptFile(
                                [State EXCEPT !.hist.kind[c] = kind], c), c))
    /\ UNCHANGED <<csrfTokens, appApiKey, generalLimiter, claudeApiKey, production, promptFile,
                   logWritable, envEdits, booted>>

\* POST /api/refresh of the client: the general limiter counts it, then
\* requireApiKey, then postRefreshHandler for the next caller.  The clock
\* of the Results moves on when a handler runs.
PostRefresh(header, query) ==
    /\ booted
    /\ Idle
    /\ generalLimiter.hits < GeneralMax + MaxOverLimit
    /\ LET hits == generalLimiter.hits + 1
           answer == RefreshMiddleware(hits, header, query)
           s == [State EXCEPT !.hist.gate = answer]
           free == {c \in 1..MaxCallers : hist.kind[c] = "none"}
       IN  /\ generalLimiter' = [generalLimiter EXCEPT !.hits = hits]
           /\ IF answer = PassedOn
              THEN /\ free # {}
                   /\ LET c == CHOOSE x \in free : \A y \in free : x <= y
                      IN  Install(HandlerAwait(ProcessPromptFile(
                                      [s EXCEPT !.hist.kind[c] = "refresh"], c), c))
              ELSE Install(s)
           /\ clock' = IF answer = PassedOn THEN clock + 1 ELSE clock
    /\ UNCHANGED <<csrfTokens, appApiKey, claudeApiKey, production, promptFile, logWritable,
                   envEdits, booted>>

\* The window of the general limiter ends: its store starts counting afresh
WindowElapses ==
    /\ booted
    /\ Idle
    /\ generalLimiter.windows < MaxWindows
    /\ generalLimiter' = [hits |-> 0, windows |-> generalLimiter.windows + 1]
    /\ UNCHANGED <<csrfTokens, appApiKey, claudeApiKey, production, promptFile, logWritable,
                   envEdits, clock, currentResult, requestQueue,
                   isCurrentlyProcessing, inFlight, microtasks, logFile, booted,
                   cycle, cyclePromise, waiter, handler, reply, hist>>

\* The upstream call of cycle c settles: a response, an error or the timeout
UpstreamSettle(c, o) ==
    /\ Idle
    /\ c \in inFlight
    /\ clock' = clock + 1
    /\ Install(Enqueue([State EXCEPT !.inFlight = @ \ {c},
                                     !.hist.upstream[c] = o,
                                     !.hist.text[c] =
                                         IF o \in UpstreamTexts THEN UpstreamText(o) ELSE <<>>],
                       "contExec", c))
    /\ UNCHANGED <<csrfTokens, appApiKey, generalLimiter, claudeApiKey, production, promptFile,
                   logWritable, envEdits, booted>>

\* The upstream call of cycle c settles with the text that descriptor d gives
UpstreamReply(c, d) ==
    /\ Idle
    /\ c \in inFlight
    /\ clock' = clock + 1
    /\ Install(Enqueue([State EXCEPT !.inFlight = @ \ {c},
                                     !.hist.upstream[c] = "text",
                                     !.hist.text[c] = Render(d),
                                     !.hist.descriptor[c] = d],
                       "contExec", c))
    /\ UNCHANGED <<csrfTokens, appApiKey, generalLimiter, claudeApiKey, production, promptFile,
                   logWritable, envEdits, booted>>

\* Somebody edits, removes or locks prompt.txt
EditPrompt(p) ==
    /\ booted
    /\ Idle
    /\ envEdits < MaxEnvEdits
    /\ p # promptFile
    /\ promptFile' = p
    /\ envEdits' = envEdits + 1
    /\ UNCHANGED <<csrfTokens, appApiKey, generalLimiter, claudeApiKey, production, logWritable, clock, currentResult,
                   requestQueue, isCurrentlyProcessing, inFlight, microtasks,
                   logFile, booted, cycle, cyclePromise, waiter, handler, reply, hist>>

\* The log file becomes unwritable (or writable again)
LogFileChange ==
    /\ booted
    /\ Idle
    /\ envEdits < MaxEnvEdits
    /\ logWritable' = ~logWritable
    /\ envEdits' = envEdits + 1
    /\ UNCHANGED <<csrfTokens, appApiKey, generalLimiter, claudeApiKey, production, promptFile, clock, currentResult,
                   requestQueue, isCurrentlyProcessing, inFlight, microtasks,
                   logFile, booted, cycle, cyclePromise, waiter, handler, reply, hist>>

\* The prompt of one more cycle is built (lines 262-293), at a later time
\* than the one before
Augment(content, r1, r2, r3) ==
    /\ Len(hist.prompts) < MaxAugmentations
    /\ Trim(content) # <<>>
    /\ clock' = clock + 1
    /\ Install([State EXCEPT !.hist.prompts =
                                 Append(@, Augmentation(content, clock, r1, r2, r3))])
    /\ UNCHANGED <<csrfTokens, appApiKey, generalLimiter, claudeApiKey, production, promptFile,
                   logWritable, envEdits, booted>>

(***************************************************************************)
(* Microtasks: the head of the queue runs                                  *)
(***************************************************************************)
MicrotaskPending == microtasks # <<>>
Popped == [State EXCEPT !.microtasks = Tail(@)]
EnvUnchanged ==
    UNCHANGED <<csrfTokens, appApiKey, generalLimiter, claudeApiKey, production, promptFile,
                logWritable, envEdits, clock, booted>>

\* executeClaudeAPICall resumes after await axios.post and returns
ContExec ==
    /\ MicrotaskPending /\ Head(microtasks).kind = "contExec"
    /\ LET c == Head(microtasks).c
       IN  Install(Enqueue([ResumeExecute(Popped, c) EXCEPT !.cycle[c] = "awaiting"],
                           "contPPF", c))
    /\ EnvUnchanged

\* processPromptFile resumes after await executeClaudeAPICall(prompt)
ContPPF ==
    /\ MicrotaskPending /\ Head(microtasks).kind = "contPPF"
    /\ Install(FinishCycle(Popped, Head(microtasks).c))
    /\ EnvUnchanged

\* The async function returned the queue promise: the promise of the call
\* follows it from now on
Thenable ==
    /\ MicrotaskPending /\ Head(microtasks).kind = "thenable"
    /\ LET c == Head(microtasks).c
           s1 == [Popped EXCEPT !.waiter[c].linked = TRUE]
       IN  Install(IF s1.waiter[c].inner = "resolved" THEN Enqueue(s1, "adopt", c) ELSE s1)
    /\ EnvUnchanged

\* The reaction of the finished run invokes nextResolve
CallResolve ==
    /\ MicrotaskPending /\ Head(microtasks).kind = "callResolve"
    /\ Install(InvokeResolve(Popped, Head(microtasks).c))
    /\ EnvUnchanged

\* The promise of the queued call is fulfilled
Adopt ==
    /\ MicrotaskPending /\ Head(microtasks).kind = "adopt"
    /\ LET c == Head(microtasks).c
           s1 == [Popped EXCEPT !.waiter[c].outer = "fulfilled"]
       IN  Install(IF s1.handler[c] = "awaiting" THEN Enqueue(s1, "resume", c) ELSE s1)
    /\ EnvUnchanged

\* The request handler resumes after await processPromptFile() and replies
Resume ==
    /\ MicrotaskPending /\ Head(microtasks).kind = "resume"
    /\ Install(ResumeHandler(Popped, Head(microtasks).c))
    /\ EnvUnchanged

Next ==
    \/ Boot
    \/ \E c \in 1..MaxCallers, k \in {"result", "refresh"} : Request(c, k)
    \/ \E c \in Callers, o \in UpstreamOutcomes : UpstreamSettle(c, o)
    \/ \E p \in PromptStates : EditPrompt(p)
    \/ LogFileChange
    \/ ContExec
    \/ ContPPF
    \/ Thenable
    \/ CallResolve
    \/ Adopt
    \/ Resume

Spec == Init /\ [][Next]_vars

\* The normaliser on its own: the start-up cycle, with the key configured and
\* the prompt file in place, gets each of the texts above from the provider.
NormalizeInit == Init /\ claudeApiKey /\ promptFile = "ok"
NormalizeNext ==
    \/ Boot
    \/ \E d \in TextDescriptors : UpstreamReply(Startup, d)
    \/ ContExec
    \/ ContPPF
NormalizeSpec == NormalizeInit /\ [][NormalizeNext]_vars

\* The prompt augmenter on its own: prompts are built one after the other
\* from what prompt.txt holds and what Math.random() returns.
AugmentInit == Init /\ claudeApiKey /\ production /\ promptFile = "ok"
AugmentNext ==
    \E content \in PromptContents, r1, r2, r3 \in Randoms : Augment(content, r1, r2, r3)
AugmentSpec == AugmentInit /\ [][AugmentNext]_vars

\* The refresh route behind its middleware: one client sends POST
\* /api/refresh with and without keys, APP_API_KEY configured or not; the
\* provider answers every cycle with a story.
GateInit ==
    /\ claudeApiKey = TRUE /\ production = FALSE /\ promptFile = "ok"
    /\ appApiKey \in ExpectedKeys
    /\ InitProgram
GateNext ==
    \/ Boot
    \/ \E header \in HeaderValues, query \in QueryValues : PostRefresh(header, query)
    \/ WindowElapses
    \/ \E c \in Callers : UpstreamSettle(c, "story")
    \/ ContExec
    \/ ContPPF
    \/ Thenable
    \/ CallResolve
    \/ Adopt
    \/ Resume
GateSpec == GateInit /\ [][GateNext]_vars

(***************************************************************************)
(* The polling variant: its macrotasks and microtasks.  The upstream call  *)
(* settles as above, and the handler resumes as above.                     *)
(***************************************************************************)
\* if (fs.existsSync(promptFile)) { processPromptFile(); }  then app.listen
PollingBoot ==
    /\ ~booted
    /\ booted' = TRUE
    /\ clock' = clock + 1
    /\ IF promptFile # "missing"
       THEN Install(PollingProcessPromptFile(
                       [State EXCEPT !.hist.kind[Startup] = "startup"], Startup))
       ELSE Install(State)
    /\ UNCHANGED <<csrfTokens, appApiKey, generalLimiter, claudeApiKey, production, promptFile,
                   logWritable, envEdits>>

\* GET /api/result reaches its handler
PollingRequest(c) ==
    /\ booted
    /\ Idle
    /\ c \in 1..MaxCallers
    /\ hist.kind[c] = "none"
    /\ \A d \in 1..(c - 1) : hist.kind[d] # "none"
    /\ clock' = clock + 1
    /\ Install(PollingHandler([State EXCEPT !.hist.kind[c] = "result"], c))
    /\ UNCHANGED <<csrfTokens, appApiKey, generalLimiter, claudeApiKey, production, promptFile,
                   logWritable, envEdits, booted>>

\* The 100 ms timer of caller c fires; timers of one delay fire in the order
\* they were set
PollTimer(c) ==
    /\ Idle
    /\ cycle[c] = "polling"
    /\ \A d \in Callers : cycle[d] = "polling" => c <= d
    /\ clock' = clock + 1
    /\ Install(PollingAfterTimer(State, c))
    /\ UNCHANGED <<csrfTokens, appApiKey, generalLimiter, claudeApiKey, production, promptFile,
                   logWritable, envEdits, booted>>

\* executeClaudeAPICall resumes after await axios.post and returns
PollingContExec ==
    /\ MicrotaskPending /\ Head(microtasks).kind = "contExec"
    /\ LET c == Head(microtasks).c
       IN  Install(Enqueue([PollingResumeExecute(Popped, c) EXCEPT !.cycle[c] = "awaiting"],
                           "contPPF", c))
    /\ EnvUnchanged

\* processPromptFile resumes after await executeClaudeAPICall(prompt) and
\* returns
PollingContPPF ==
    /\ MicrotaskPending /\ Head(microtasks).kind = "contPPF"
    /\ Install(PollingSettle(Popped, Head(microtasks).c))
    /\ EnvUnchanged

PollingNext ==
    \/ PollingBoot
    \/ \E c \in 1..MaxCallers : PollingRequest(c)
    \/ \E c \in Callers : PollTimer(c)
    \/ \E c \in Callers, o \in UpstreamOutcomes : UpstreamSettle(c, o)
    \/ \E p \in PromptStates : EditPrompt(p)
    \/ LogFileChange
    \/ PollingContExec
    \/ PollingContPPF
    \/ Resume

PollingSpec == Init /\ [][PollingNext]_vars

(***************************************************************************)
(* The server with its two front ends                                      *)
(***************************************************************************)
\* The client that sent request c has the reply and shows it
Display(c, client) ==
    /\ handler[c] = "replied"
    /\ hist.kind[c] = "result"
    /\ hist.client[c] = "none"
    /\ hist' = [hist EXCEPT !.client[c] = client,
                            !.view[c] = IF client = "page"
                                        THEN FetchResult(reply[c])
                                        ELSE FetchAndFormatStory(reply[c])]
    /\ UNCHANGED <<csrfTokens, appApiKey, generalLimiter, claudeApiKey, production, promptFile,
                   logWritable, envEdits, clock, booted, currentResult, requestQueue,
                   isCurrentlyProcessing, inFlight, microtasks, logFile, cycle,
                   cyclePromise, waiter, handler, reply>>

FrontOutcomes == {"network", "story", "plain"}
\* Provider texts that are JSON and no Story: an object without content, and
\* one whose content is empty
FrontDescriptors ==
    {d \in TextDescriptors :
        /\ d.wrap = "bare" /\ d.shape = "object"
        /\ d.name = Member("string", <<"x">>)
        /\ d.content \in {Member("absent", <<>>), Member("string", <<>>)}
        /\ d.quote = Member("absent", <<>>)
        /\ d.colon = "tight" /\ d.layout = "compact"}

FrontInit ==
    /\ claudeApiKey \in BOOLEAN
    /\ production = FALSE
    /\ promptFile \in {"empty", "ok"}
    /\ appApiKey = Undefined
    /\ InitProgram

FrontNext ==
    \/ Boot
    \/ \E c \in 1..MaxCallers : Request(c, "result")
    \/ \E c \in Callers, o \in FrontOutcomes : UpstreamSettle(c, o)
    \/ \E c \in Callers, d \in FrontDescriptors : UpstreamReply(c, d)
    \/ \E c \in 1..MaxCallers, client \in {"page", "terminal"} : Display(c, client)
    \/ ContExec
    \/ ContPPF
    \/ Thenable
    \/ CallResolve
    \/ Adopt
    \/ Resume

FrontSpec == FrontInit /\ [][FrontNext]_vars

(***************************************************************************)
(* The CSRF tokens on their own: tokens are issued, requests present       *)
(* tokens, time passes.                                                    *)
(***************************************************************************)
CsrfUnchanged ==
    UNCHANGED <<appApiKey, generalLimiter, claudeApiKey, production, promptFile,
                logWritable, envEdits, booted, currentResult, requestQueue,
                isCurrentlyProcessing, inFlight, microtasks, logFile, cycle,
                cyclePromise, waiter, handler, reply>>

\* generateCsrfToken() is called and returns the next token
Generate ==
    LET token == Cardinality(DOMAIN hist.csrf.issued) + 1
        after == GenerateCsrfToken(csrfTokens, token, clock)
    IN  /\ token \in Tokens
        /\ csrfTokens' = after
        /\ hist' = [hist EXCEPT
               !.csrf.issued = [t \in DOMAIN @ \cup {token} |->
                                   IF t = token THEN clock ELSE @[t]],
               !.csrf.last = [NoCall EXCEPT !.op = "generate", !.token = token,
                                            !.now = clock, !.before = csrfTokens,
                                            !.after = after]]
        /\ UNCHANGED clock
        /\ CsrfUnchanged

\* A request reaches validateCsrfToken
Validate(method, header, body) ==
    LET token == IF header # NoToken THEN header ELSE body
        result == ValidateCsrfToken(csrfTokens, method, header, body, clock)
        counted == method \notin {"GET", "HEAD"} /\ result.answer = PassedOn
    IN  /\ csrfTokens' = result.store
        /\ hist' = [hist EXCEPT
               !.csrf.accepted = IF counted THEN [@ EXCEPT ![token] = @ + 1] ELSE @,
               !.csrf.last = [op |-> "validate", method |-> method, token |-> token,
                              now |-> clock, answer |-> result.answer,
                              before |-> csrfTokens, after |-> result.store,
                              acceptedBefore |->
                                  IF token = NoToken THEN 0
                                  ELSE hist.csrf.accepted[token]]]
        /\ UNCHANGED clock
        /\ CsrfUnchanged

\* Time passes: a millisecond, an hour, or an hour and a millisecond
TimePasses(d) ==
    /\ hist.csrf.timeSteps < MaxTimeSteps
    /\ clock' = clock + d
    /\ hist' = [hist EXCEPT !.csrf.timeSteps = @ + 1]
    /\ UNCHANGED csrfTokens
    /\ CsrfUnchanged

CsrfInit ==
    /\ claudeApiKey = TRUE
    /\ production = FALSE
    /\ promptFile = "ok"
    /\ appApiKey = Undefined
    /\ InitProgram

CsrfNext ==
    \/ Generate
    \/ \E method \in Methods, header, body \in Tokens \cup {NoToken} :
           Validate(method, header, body)
    \/ \E d \in {1, CsrfLifetime, CsrfLifetime + 1} : TimePasses(d)

CsrfSpec == CsrfInit /\ [][CsrfNext]_vars

\* The event loop drains the microtask queue after every macrotask, so the
\* queue is empty again and again; and every upstream call settles (a
\* response, an error, or the 60 s timeout of axios).
LiveSpec ==
    /\ Spec
    /\ []<>Idle
    /\ WF_vars(\E c \in Callers, o \in UpstreamOutcomes : UpstreamSettle(c, o))

(***************************************************************************)
(* Properties                                                              *)
(***************************************************************************)
RECURSIVE SumOver(_, _)
SumOver(f, S) ==
    IF S = {} THEN 0
    ELSE LET x == CHOOSE y \in S : TRUE IN f[x] + SumOver(f, S \ {x})

Waiters == {hist.enqueued[i] : i \in 1..Len(hist.enqueued)}
\* a was appended to requestQueue before b
QueuedBefore(a, b) ==
    \E i, j \in 1..Len(hist.enqueued) :
        i < j /\ hist.enqueued[i] = a /\ hist.enqueued[j] = b
Started(c) == cycle[c] # "none"
\* Nothing is running, queued or pending: the queue has drained
Drained ==
    /\ booted /\ Idle /\ ~isCurrentlyProcessing
    /\ requestQueue = <<>> /\ inFlight = {}
\* Every prompt check so far found a non-empty prompt file
PromptAlwaysOk == \A c \in Callers : hist.promptSeen[c] \in {"none", "ok"}

\* C1: at most one upstream call issued by executeClaudeAPICall is in flight
\* in every reachable state, whatever the arrivals and completions.
C1_AtMostOneInFlight == Cardinality(inFlight) <= 1
\* An upstream call is in flight while two callers wait in the queue.
C1_Witness == Cardinality(inFlight) = 1 /\ Len(requestQueue) = 2

\* C2: with the prompt file present and non-empty throughout, once the queue
\* has drained the N calls of processPromptFile made so far have caused
\* exactly N invocations of executeClaudeAPICall, one for each caller.
C2_ExactlyNInvocations ==
    (Drained /\ PromptAlwaysOk) =>
        /\ SumOver(hist.execCalls, Callers) = Cardinality(Arrived)
        /\ \A c \in Arrived : hist.execCalls[c] = 1
\* Three calls, two of them queued, have drained.
C2_Witness ==
    /\ Drained /\ PromptAlwaysOk
    /\ Cardinality(Arrived) = 3 /\ Len(hist.enqueued) = 2

\* C3: the Result a caller's handler reads when it resumes (res.json(currentResult))
\* is the completed outcome written by that caller's own cycle.
C3_CallerReceivesOwnResult ==
    \A c \in Callers :
        (handler[c] = "replied" /\ hist.kind[c] = "result") =>
            /\ reply[c].status = "200"
            /\ hist.replyWriter[c] = c
            /\ reply[c].body = hist.outcome[c]
            /\ ~reply[c].body.isProcessing

\* C4: a waiter's resolve handle is invoked only after the cycle run on that
\* waiter's behalf has written its outcome and ended, never at the end of an
\* earlier caller's cycle.
C4_ResolveAfterOwnWrite ==
    \A c \in Callers :
        hist.invoked[c] > 0 =>
            /\ hist.outcome[c] # NoResult
            /\ cycle[c] = "done"
            /\ cyclePromise[c] = "fulfilled"
\* A waiter queued behind a running cycle has had its handle invoked.
C4_Witness ==
    \E c \in Waiters : hist.invoked[c] = 1 /\ hist.upstream[c] \in UpstreamOutcomes

\* C5: if A was appended to requestQueue before B, A's cycle starts and A is
\* unblocked before B's cycle starts.
C5_StrictFifo ==
    \A a, b \in Callers :
        (QueuedBefore(a, b) /\ Started(b)) => (Started(a) /\ hist.invoked[a] > 0)
\* The release order alone: B's handle is not invoked before A's.
C5_FifoRelease ==
    \A a, b \in Callers :
        (QueuedBefore(a, b) /\ hist.invoked[b] > 0) => hist.invoked[a] > 0

\* C6: every caller appended to requestQueue eventually runs its own cycle and
\* has its promise resolved (and its handler replies).
C6_QueuedEventuallyServed ==
    \A c \in 1..MaxCallers :
        (waiter[c].inner = "pending") ~>
            (cycle[c] = "done" /\ waiter[c].outer = "fulfilled" /\ handler[c] = "replied")
\* A queued caller was served after the cycle it waited for failed upstream.
C6_Witness ==
    \E c \in Waiters :
        /\ waiter[c].outer = "fulfilled" /\ cycle[c] = "done"
        /\ \E d \in Callers : d # c /\ hist.upstream[d] = "timeout"

\* C7: the promise returned by processPromptFile never rejects, for the
\* driver and for every queued waiter, whatever the outcome of the cycle;
\* no handler reaches its 500 branch.
C7_NeverRejects ==
    \A c \in Callers :
        /\ cyclePromise[c] # "rejected"
        /\ waiter[c].outer # "rejected"
        /\ reply[c].status # "500"
\* A waiter's cycle hit an unreadable prompt file and a driver's an upstream
\* error; both were answered.
C7_Witness ==
    /\ \E c \in Waiters :
           hist.promptSeen[c] = "unreadable" /\ reply[c].status = "200"
    /\ \E d \in Callers :
           hist.upstream[d] \in UpstreamFailures /\ cyclePromise[d] = "fulfilled"

\* C8: without CLAUDE_API_KEY no cycle issues the upstream request, and the
\* cycle that calls executeClaudeAPICall writes, in that call, the Result
\* with error "CLAUDE_API_KEY not configured" and isProcessing = false.
C8_NoKeyNoRequest ==
    ~claudeApiKey =>
        \A c \in Callers :
            /\ hist.posted[c] = 0
            /\ c \notin inFlight
            /\ hist.execCalls[c] > 0 =>
                   /\ hist.outcome[c] # NoResult
                   /\ hist.outcome[c].error = "CLAUDE_API_KEY not configured"
                   /\ hist.outcome[c].isProcessing = FALSE
\* A cycle has called executeClaudeAPICall without a key configured.
C8_Witness == ~claudeApiKey /\ \E c \in Callers : hist.execCalls[c] = 1

\* The audit records of cycle c (its prompt names the cycle)
RecordsOf(c) ==
    LET OfCycle(r) == r.prompt = c IN SelectSeq(logFile, OfCycle)
\* Cycle c's upstream call failed and executeClaudeAPICall has handled it
UpstreamFailed(c) ==
    hist.upstream[c] \in UpstreamFailures /\ cycle[c] \in {"awaiting", "done"}
ErrorRecord(c, msg) == [prompt |-> c, kind |-> "ERROR", body |-> Str(msg)]
ErrorResultOf(c) ==
    /\ hist.outcome[c] # NoResult
    /\ hist.outcome[c].error # NULL
    /\ hist.outcome[c].isProcessing = FALSE

\* C9: every upstream failure of a cycle produces, in that cycle, a Result
\* with error set and isProcessing = false and one audit log record carrying
\* the failure message.
C9_FailureStoredAndLogged ==
    \A c \in Callers :
        UpstreamFailed(c) =>
            /\ ErrorResultOf(c)
            /\ RecordsOf(c) = <<ErrorRecord(c, FailureMessage(hist.upstream[c]))>>
\* C9 as amended: the record is in the log unless the append itself failed,
\* which logRequest catches and reports on the console only.
C9_FailureStoredAndLogAttempted ==
    \A c \in Callers :
        UpstreamFailed(c) =>
            /\ ErrorResultOf(c)
            /\ hist.outcome[c].error =
                   (IF production THEN "Processing failed"
                                  ELSE FailureMessage(hist.upstream[c]))
            /\ RecordsOf(c) =
                   (IF c \in hist.logFailed
                    THEN <<>>
                    ELSE <<ErrorRecord(c, FailureMessage(hist.upstream[c]))>>)
\* An upstream timeout was stored and logged; another failure's append failed.
C9_Witness ==
    \E c \in Callers :
        /\ UpstreamFailed(c) /\ hist.upstream[c] = "timeout"
        /\ Len(RecordsOf(c)) = 1

\* C10: no error Result is written without a matching audit record.
C10_ErrorResultsAreLogged ==
    \A c \in Callers :
        (hist.outcome[c] # NoResult /\ hist.outcome[c].error # NULL) =>
            \E i \in 1..Len(logFile) :
                logFile[i].prompt = c /\ logFile[i].kind = "ERROR"

\* The fixed fallback payloads of the error Results
FallbackStrings ==
    {Str("API key not configured"), Str("Error processing request"),
     Str("prompt.txt file not found")}
\* error.message of every failure the pipeline can meet
DetailedMessages ==
    {FailureMessage(o) : o \in UpstreamFailures} \cup {ReadFailureMessage}
\* Cycle c failed inside the pipeline (upstream, or reading the prompt file)
\* and the failure has been handled
PipelineFailed(c) ==
    \/ UpstreamFailed(c)
    \/ hist.promptSeen[c] = "unreadable" /\ cycle[c] = "done"

\* C11: in every reachable state of the Result Store, isProcessing = true
\* implies that the payload is the placeholder 'Processing...', never the
\* payload left by an earlier cycle.
C11_ProcessingShowsPlaceholder ==
    currentResult.isProcessing =>
        /\ currentResult.response = Str("Processing...")
        /\ currentResult.error = NULL
\* A cycle is processing after an earlier cycle stored a Story.
C11_Witness ==
    /\ currentResult.isProcessing
    /\ \E d \in Callers :
           /\ hist.upstream[d] = "story"
           /\ cycle[d] = "done"
           /\ hist.outcome[d].error = NULL

\* C12: in every reachable state of the Result Store, error # null implies
\* that the payload is one of the fixed fallback strings, never a Story, raw
\* model text or the message of the internal error.
C12_ErrorPayloadIsFallback ==
    /\ currentResult.error # NULL => currentResult.response \in FallbackStrings
    /\ \A c \in Callers :
           (hist.outcome[c] # NoResult /\ hist.outcome[c].error # NULL) =>
               hist.outcome[c].response \in FallbackStrings
\* Outside production the store holds an upstream failure: the message is in
\* error, the payload is the fallback string.
C12_Witness ==
    /\ ~production
    /\ currentResult.error \in {FailureMessage(o) : o \in UpstreamFailures}
    /\ currentResult.response = Str("Error processing request")

\* C13: in production the error of the Result written for a failed cycle is
\* the same fixed string whatever the failure's message was, and no Result
\* or reply carries the message; the message is in the audit log (and, outside
\* production, in the Result).
C13_ProductionErrorIsFixed ==
    /\ production =>
           /\ currentResult.error \notin DetailedMessages
           /\ \A c \in Callers :
                  /\ PipelineFailed(c) => hist.outcome[c].error = "Processing failed"
                  /\ (reply[c].status = "200" /\ hist.kind[c] = "result") =>
                         reply[c].body.error \notin DetailedMessages
    /\ \A c \in Callers :
           (UpstreamFailed(c) /\ c \notin hist.logFailed) =>
               RecordsOf(c) = <<ErrorRecord(c, FailureMessage(hist.upstream[c]))>>
    /\ ~production =>
           \A c \in Callers :
               UpstreamFailed(c) => hist.outcome[c].error = FailureMessage(hist.upstream[c])
\* In production two cycles failed with different messages and stored the
\* same error.
C13_Witness ==
    /\ production
    /\ \E c, d \in Callers :
           /\ UpstreamFailed(c) /\ UpstreamFailed(d)
           /\ hist.upstream[c] # hist.upstream[d]
           /\ hist.outcome[c].error = hist.outcome[d].error

\* C20: a cycle that finds no prompt file writes the Result with error
\* "File not found", one that finds an empty prompt writes the placeholder
\* payload with error = null; neither calls upstream, the cycle ends
\* (the coordinator is idle again once the queue has drained) and the caller
\* is answered.
C20_PromptSourceHandling ==
    \A c \in Callers :
        hist.promptSeen[c] \in {"missing", "empty"} =>
            /\ hist.outcome[c] =
                   (IF hist.promptSeen[c] = "missing"
                    THEN Result(Str("prompt.txt file not found"), FALSE, NoTime,
                                "File not found")
                    ELSE Result(Str("Please add your prompt to prompt.txt"), FALSE,
                                NoTime, NULL))
            /\ hist.writes[c] = 1
            /\ hist.execCalls[c] = 0 /\ hist.posted[c] = 0 /\ c \notin inFlight
            /\ cycle[c] = "done" /\ cyclePromise[c] = "fulfilled"
            /\ (Idle /\ requestQueue = <<>> /\ inFlight = {}) => ~isCurrentlyProcessing
            /\ (Idle /\ c # Startup) =>
                   (handler[c] = "replied" /\ reply[c].status = "200")
\* One caller found the file missing and a later one found it empty; both
\* were answered.
C20_Witness ==
    /\ Idle
    /\ \E c, d \in 1..MaxCallers :
           /\ hist.promptSeen[c] = "missing" /\ handler[c] = "replied"
           /\ hist.promptSeen[d] = "empty" /\ handler[d] = "replied"

\* The provider returned a text for cycle c and executeClaudeAPICall has
\* stored what it made of it
TextHandled(c) ==
    /\ hist.upstream[c] \in UpstreamTexts \cup {"text"}
    /\ cycle[c] \in {"awaiting", "done"}
NonEmptyString(v) == v.type = "string" /\ v.chars # <<>>
HasControl(raw) == \E i \in 1..Len(raw) : raw[i] \in ControlChars

RECURSIVE Intended(_)
\* The value meant by the characters written between the quotes: escape
\* sequences stand for their character, every other character for itself
Intended(raw) ==
    CASE raw = <<>> -> <<>>
      [] Head(raw) = BS /\ Len(raw) >= 2 ->
            <<Unescape(raw[2])>> \o Intended(SubSeq(raw, 3, Len(raw)))
      [] OTHER -> <<Head(raw)>> \o Intended(Tail(raw))

RECURSIVE IntendedFields(_)
IntendedFields(es) ==
    IF es = <<>>
    THEN EmptyFields
    ELSE (<<Head(es).key>> :>
              (IF Head(es).m.use = "null"
               THEN [type |-> "null"]
               ELSE RawText(Intended(Head(es).m.raw))))
             @@ IntendedFields(Tail(es))
\* The object that descriptor d writes out
IntendedObject(d) == JsonObject(IntendedFields(MembersOf(d)))
\* d writes out an object with a non-empty name and a non-empty content
IntendedStory(d) ==
    /\ d.shape = "object"
    /\ d.name.use = "string" /\ d.name.raw # <<>>
    /\ d.content.use = "string" /\ d.content.raw # <<>>
ControlIn(m) == m.use = "string" /\ HasControl(m.raw)

\* C14: when the text (the fenced block, if there is one) parses, strictly or
\* after the repair pass, to an object with a non-empty name and a non-empty
\* content, the Result holds that object itself, with error = null and
\* isProcessing = false; a Story written out as valid JSON is stored with
\* the fields it was written with.
C14_StoryStoredAsObject ==
    \A c \in Callers :
        TextHandled(c) =>
            LET text == ClaudeResponse(hist.text[c])
                p == IF JSONParse(text).ok THEN JSONParse(text) ELSE JSONParse(Cleaned(text))
                d == hist.descriptor[c]
            IN  /\ (/\ p.ok
                    /\ NonEmptyString(Property(p.val, "name"))
                    /\ NonEmptyString(Property(p.val, "content"))) =>
                       /\ hist.outcome[c].response = p.val
                       /\ hist.outcome[c].response.type = "object"
                       /\ hist.outcome[c].error = NULL
                       /\ hist.outcome[c].isProcessing = FALSE
                /\ (/\ IntendedStory(d)
                    /\ ~ControlIn(d.content) /\ ~ControlIn(d.quote)) =>
                       hist.outcome[c].response = IntendedObject(d)
\* A Story in a fence with prose around it, its content holding a literal
\* newline, was stored as an object.
C14_Witness ==
    \E c \in Callers :
        /\ TextHandled(c)
        /\ hist.descriptor[c].wrap = "prose"
        /\ ControlIn(hist.descriptor[c].content)
        /\ hist.outcome[c].response.type = "object"

\* C15: when the text does not parse, or parses to something without a
\* non-empty name or content, the Result payload is the text the provider
\* returned, character for character, also when the JSON sits in a fence
\* with prose around it.
C15_RawTextVerbatim ==
    \A c \in Callers :
        (TextHandled(c) /\ ~IsStory(ParseWithRepair(ClaudeResponse(hist.text[c])))) =>
            hist.outcome[c].response = RawText(hist.text[c])

\* C16: whenever the provider returned a text, the cycle writes a Result with
\* error = null and one RESPONSE RECEIVED record is in the audit log; a cycle
\* whose upstream call settled writes an error Result only when no text came.
C16_TextIsNeverAFailure ==
    \A c \in Callers :
        /\ TextHandled(c) =>
               /\ hist.outcome[c].error = NULL
               /\ hist.outcome[c].isProcessing = FALSE
               /\ RecordsOf(c) =
                      <<[prompt |-> c, kind |-> "RESPONSE RECEIVED",
                         body |-> hist.outcome[c].response]>>
\* C16 as amended: the record is in the log unless the append itself failed;
\* the error Results of settled calls are those of the upstream failures.
C16_TextStoredAndLogAttempted ==
    \A c \in Callers :
        /\ TextHandled(c) =>
               /\ hist.outcome[c].error = NULL
               /\ hist.outcome[c].isProcessing = FALSE
               /\ hist.outcome[c].response.type \in {"string", "object"}
               /\ RecordsOf(c) =
                      (IF c \in hist.logFailed
                       THEN <<>>
                       ELSE <<[prompt |-> c, kind |-> "RESPONSE RECEIVED",
                               body |-> hist.outcome[c].response]>>)
        /\ (/\ cycle[c] \in {"awaiting", "done"}
            /\ hist.posted[c] > 0
            /\ hist.outcome[c].error # NULL) => hist.upstream[c] \in UpstreamFailures
\* A text that is no Story was stored without error and logged as a success.
C16_Witness ==
    \E c \in Callers :
        /\ TextHandled(c) /\ hist.upstream[c] = "plain"
        /\ hist.outcome[c].response = RawText(UpstreamText("plain"))
        /\ Len(RecordsOf(c)) = 1

\* d writes out a Story whose content or shareableQuote holds a literal
\* newline, carriage return or tab, and is well-formed JSON but for that
RepairCase(d) ==
    /\ IntendedStory(d)
    /\ d.name.use = "string"
    /\ ControlIn(d.content) \/ ControlIn(d.quote)

\* C17: every Story text that is well-formed but for literal newlines,
\* carriage returns or tabs in content or shareableQuote fails the strict
\* parse, parses after the repair pass, and is stored as the Story with those
\* characters in the field value and every other field as written.
C17_RepairRoundTrip ==
    \A c \in Callers :
        (TextHandled(c) /\ RepairCase(hist.descriptor[c])) =>
            /\ ~JSONParse(ClaudeResponse(hist.text[c])).ok
            /\ JSONParse(Cleaned(ClaudeResponse(hist.text[c]))).ok
            /\ hist.outcome[c].response = IntendedObject(hist.descriptor[c])
\* The same for the texts that have no whitespace between a key and its colon.
C17_RepairRoundTripKeyColon ==
    \A c \in Callers :
        (/\ TextHandled(c) /\ RepairCase(hist.descriptor[c])
         /\ hist.descriptor[c].colon # "before") =>
            /\ ~JSONParse(ClaudeResponse(hist.text[c])).ok
            /\ JSONParse(Cleaned(ClaudeResponse(hist.text[c]))).ok
            /\ hist.outcome[c].response = IntendedObject(hist.descriptor[c])

Range(f) == {f[i] : i \in DOMAIN f}
\* The lines of the template that give the prompt its structure
Markers ==
    {MetadataHeader, InstructionsHeader} \cup Range(FieldLabels)
        \cup Range(InstructionNumbers)
IsMarker(ch) == ch \in Markers
IsInstruction(ch) == ch \in Range(Instructions)

\* C18: the augmented prompt starts with the trimmed base prompt, unaltered,
\* followed by the metadata block with exactly the four fields Generation
\* ID, Timestamp, Unique Request ID and Random Seed, in that order, followed
\* by exactly five numbered critical instructions.
C18_AugmentedPromptShape ==
    \A n \in 1..Len(hist.prompts) :
        LET a == hist.prompts[n]
        IN  /\ a.basePrompt # <<>>
            /\ a.basePrompt = Trim(a.content)
            /\ SubSeq(a.prompt, 1, Len(a.basePrompt)) = a.basePrompt
            /\ SubSeq(a.prompt, Len(a.basePrompt) + 1, Len(a.basePrompt) + 3)
                   = <<LF, LF, MetadataHeader>>
            /\ SelectSeq(a.prompt, IsMarker) =
                   <<MetadataHeader>> \o FieldLabels
                       \o <<InstructionsHeader>> \o InstructionNumbers
            /\ SelectSeq(a.prompt, IsInstruction) = Instructions
            /\ a.prompt[Len(a.prompt)] = Instructions[5]
\* A prompt file with whitespace around a two-word prompt was augmented.
C18_Witness ==
    \E n \in 1..Len(hist.prompts) :
        /\ hist.prompts[n].content = <<SP, "x", SP, "x", LF>>
        /\ hist.prompts[n].basePrompt = <<"x", SP, "x">>
        /\ Len(hist.prompts[n].prompt) > Len(hist.prompts[n].basePrompt)

\* C19: two augmentations of the same base prompt made at different times
\* never carry the same Generation ID.
C19_GenerationIdsDiffer ==
    \A m, n \in 1..Len(hist.prompts) :
        (/\ m # n
         /\ hist.prompts[m].basePrompt = hist.prompts[n].basePrompt
         /\ hist.prompts[m].time # hist.prompts[n].time) =>
            hist.prompts[m].randomSeed # hist.prompts[n].randomSeed

\* APP_API_KEY is configured: set, and not to the empty string
Configured == appApiKey.type = "string" /\ appApiKey.chars # <<>>
\* The key a request supplies: the x-api-key header, else the apikey parameter
Supplied(header, query) ==
    IF header.type = "string" /\ header.chars # <<>> THEN header ELSE query
Authorized(header, query) == ~Configured \/ Supplied(header, query) = appApiKey
\* The step hands a new caller to postRefreshHandler
HandlerReached ==
    \E c \in 1..MaxCallers :
        /\ hist.kind[c] = "none" /\ hist'.kind[c] = "refresh"
        /\ handler'[c] # "none"
        /\ hist'.role[c] \in {"driver", "waiter"}
CoordinatorUnchanged ==
    UNCHANGED <<currentResult, requestQueue, isCurrentlyProcessing, inFlight,
                microtasks, logFile, cycle, cyclePromise, waiter, handler, reply>>
\* The step is the client's POST /api/refresh with this header and query
\* (the first two conjuncts follow from the third)
RefreshStep(header, query) ==
    /\ generalLimiter'.hits = generalLimiter.hits + 1
    /\ hist'.gate = RefreshMiddleware(generalLimiter'.hits, header, query)
    /\ PostRefresh(header, query)
\* What the refresh route owes a request, by its key alone.  Below, a step
\* either meets it or is not the request with this header and query.
AuthDecides(header, query) ==
    /\ HandlerReached <=> Authorized(header, query)
    /\ ~Authorized(header, query) =>
           /\ hist'.gate.status = "401"
           /\ CoordinatorUnchanged

\* C21: the refresh handler runs, and can start a generation cycle, if and
\* only if APP_API_KEY is not configured or the key supplied by the request
\* equals it; every other request is answered 401 and changes neither the
\* coordinator state, the queue nor the Result.
C21_RefreshRequiresAuth ==
    [][\A header \in HeaderValues, query \in QueryValues :
           AuthDecides(header, query) \/ ~RefreshStep(header, query)]_vars
\* C21 as amended: the same for the requests that the general rate limiter,
\* which comes first, lets through; the others are answered 429 and change
\* nothing either.
C21_AuthBehindRateLimit ==
    [][\A header \in HeaderValues, query \in QueryValues :
           \/ IF generalLimiter'.hits <= GeneralMax
              THEN AuthDecides(header, query)
              ELSE /\ hist'.gate.status = "429"
                   /\ ~HandlerReached
                   /\ CoordinatorUnchanged
           \/ ~RefreshStep(header, query)]_vars
\* With APP_API_KEY configured, a request was answered 401 while a cycle was
\* in flight and a caller queued behind it.
C21_Witness ==
    /\ Configured
    /\ hist.gate.status = "401"
    /\ inFlight # {} /\ Len(requestQueue) = 1

\* C22: the 11th POST /api/refresh of one client within an hour (here: within
\* the fifteen minutes of one window of the general limiter) is answered 429
\* before it reaches the handler, and starts no generation cycle.
C22_RefreshLimitedTo10 ==
    [][\A header \in HeaderValues, query \in QueryValues :
           \/ generalLimiter'.hits <= RefreshMax
           \/ /\ hist'.gate.status = "429"
              /\ ~HandlerReached
              /\ CoordinatorUnchanged
           \/ ~RefreshStep(header, query)]_vars

\* The cycles that have started and not ended
ActiveCycles == {c \in Callers : cycle[c] \in {"running", "posted", "awaiting"}}
Queued == {requestQueue[i] : i \in 1..Len(requestQueue)}
\* Cycle c has ended in a failure: without a key, upstream, or at the prompt file
Failed(c) ==
    /\ cycle[c] = "done"
    /\ hist.outcome[c] # NoResult
    /\ hist.outcome[c].error # NULL

\* C23: every cycle that sets isCurrentlyProcessing sets it back when its
\* pipeline ends, on every exit path: the flag is set exactly while one cycle
\* is under way, and the flag is down whenever none is.
C23_FlagClearedOnEveryExit ==
    /\ isCurrentlyProcessing <=> ActiveCycles # {}
    /\ Cardinality(ActiveCycles) <= 1
    /\ \A c \in Callers :
           cycle[c] = "done" =>
               (isCurrentlyProcessing => \E d \in ActiveCycles : d # c)
\* The flag is down after cycles that ended on an upstream failure, on an
\* exception thrown at the prompt file, and on a missing credential or a
\* stored payload.
C23_Witness ==
    /\ Drained
    /\ \E c \in Callers : cycle[c] = "done" /\ hist.upstream[c] \in UpstreamFailures
    /\ \E c \in Callers : cycle[c] = "done" /\ hist.promptSeen[c] = "unreadable"

\* C24: a failed cycle leaves the queue as it is: every waiter still queued
\* stays queued until its own cycle starts, its handle is invoked only after
\* its own cycle has run and written its own outcome, and once the queue has
\* drained every waiter has had its own cycle and been unblocked.
C24_FailureKeepsQueue ==
    (\E d \in Callers : Failed(d)) =>
        \A c \in Waiters :
            /\ c \in Queued =>
                   (cycle[c] = "none" /\ hist.invoked[c] = 0 /\ waiter[c].inner = "pending")
            /\ c \notin Queued => c \in Range(hist.started)
            /\ hist.invoked[c] > 0 =>
                   /\ cycle[c] = "done"
                   /\ hist.writes[c] = 1
                   /\ hist.promptSeen[c] = "ok" => hist.execCalls[c] = 1
            /\ Drained =>
                   (cycle[c] = "done" /\ hist.invoked[c] = 1 /\ handler[c] = "replied")
\* A cycle failed with two waiters queued behind it; both then ran their own
\* generation and were unblocked.
C24_Witness ==
    /\ Drained
    /\ Failed(Startup) /\ hist.upstream[Startup] \in UpstreamFailures
    /\ \A c \in 1..MaxCallers :
           c \in Waiters /\ hist.execCalls[c] = 1 /\ hist.invoked[c] = 1

\* The Results written as a whole: the initial one and each cycle's outcome
Snapshots ==
    {InitialResult} \cup {hist.outcome[c] : c \in {d \in Callers : hist.outcome[d] # NoResult}}

\* C25: every Result a request handler sends is one snapshot written as a
\* whole by a single store write; none combines fields of two writes.
C25_ObservedResultIsOneSnapshot ==
    \A c \in Callers :
        (handler[c] = "replied" /\ hist.kind[c] = "result" /\ reply[c].status = "200") =>
            reply[c].body \in Snapshots

\* C28: in every state in which a request can enter processPromptFile,
\* isCurrentlyProcessing = false implies that requestQueue is empty; and no
\* caller that arrived after a caller still queued has started its cycle.
C28_NoBarging ==
    /\ ~isCurrentlyProcessing => requestQueue = <<>>
    /\ \A a \in Queued : \A c \in Callers : c > a => cycle[c] = "none"
\* A caller arrived while another was queued, and is queued behind it.
C28_Witness ==
    /\ Idle /\ Len(requestQueue) = 2
    /\ requestQueue[1] < requestQueue[2]

\* A request handler runs next: a new request can start, or the head of the
\* microtask queue resumes a handler
HandlerObserves ==
    \/ Idle
    \/ Head(microtasks).kind = "resume"

\* C29: at every point a request handler can observe, an upstream call is in
\* flight if and only if currentResult.isProcessing is true, and
\* isCurrentlyProcessing = false implies currentResult.isProcessing = false.
C29_FlagsAgree ==
    /\ HandlerObserves => (inFlight # {} <=> currentResult.isProcessing)
    /\ ~isCurrentlyProcessing => ~currentResult.isProcessing
\* A handler resumes while the next cycle's upstream call is in flight.
C29_Witness ==
    /\ microtasks # <<>> /\ Head(microtasks).kind = "resume"
    /\ inFlight # {} /\ currentResult.isProcessing

\* The number of times c occurs in the sequence q
Occurrences(q, c) == Cardinality({i \in 1..Len(q) : q[i] = c})

\* C30: each waiter handle pushed onto requestQueue is removed once and
\* invoked once: no handle is invoked twice, none is in the queue after it
\* was invoked (or after its cycle started), the queue never holds a caller
\* twice, and once the queue has drained every handle has been invoked.
C30_HandleRemovedAndInvokedOnce ==
    \A c \in Callers :
        /\ hist.invoked[c] <= 1
        /\ Occurrences(requestQueue, c) <= 1
        /\ Occurrences(hist.enqueued, c) <= 1
        /\ Occurrences(hist.started, c) <= 1
        /\ c \in Queued => (c \in Waiters /\ hist.invoked[c] = 0 /\ cycle[c] = "none")
        /\ hist.invoked[c] = 1 => (c \in Waiters /\ c \notin Queued)
        /\ (c \in Waiters /\ c \notin Queued) => c \in Range(hist.started)
        /\ (Drained /\ c \in Waiters) => hist.invoked[c] = 1
\* Two handles were pushed, removed and invoked.
C30_Witness ==
    /\ requestQueue = <<>>
    /\ Len(hist.enqueued) = 2
    /\ \A c \in Waiters : hist.invoked[c] = 1

(***************************************************************************)
(* The polling variant                                                     *)
(***************************************************************************)
\* The callers whose single poll found the generation still under way, and
\* whose handler has replied
PolledAndReplied ==
    {c \in 1..MaxCallers : hist.polled[c] = "stillProcessing" /\ handler[c] = "replied"}

\* C26: in the polling variant a caller that finds a generation in flight,
\* and still in flight after its one 100 ms poll, starts no generation, and
\* its handler sends the Result stored by the last completed cycle, not the
\* placeholder.
C26_PollerSendsStaleResult ==
    \A c \in PolledAndReplied :
        /\ hist.execCalls[c] = 0
        /\ hist.posted[c] = 0
        /\ reply[c].status = "200"
        /\ reply[c].body = hist.stale[c]
        /\ reply[c].body.response # Str("Processing...")
        /\ ~reply[c].body.isProcessing

(***************************************************************************)
(* The front ends                                                          *)
(***************************************************************************)
Displayed == {c \in 1..MaxCallers : hist.client[c] # "none"}

\* The Story a payload holds: the object itself, or the object a string is
\* the JSON text of
StoryIn(response) ==
    LET parsed == IF response.type = "string" THEN FrontParse(response) ELSE Parsed(response, 0)
    IN  IF IsStory(parsed) THEN parsed.val ELSE Undefined

\* C27: the front end shows every Result as exactly one view: the error
\* banner when error is set, whatever isProcessing and the payload are;
\* otherwise the loading state when isProcessing is true; otherwise the
\* rendered story when the payload is a Story, and the payload as plain text
\* when it is a string that is not Story JSON.
C27_OneViewPerResult ==
    \A c \in Displayed :
        LET data == reply[c].body
            shown == hist.view[c]
        IN  reply[c].status = "200" =>
                CASE data.error # NULL -> shown = View("error", Str(data.error))
                  [] data.isProcessing -> shown = View("loading", NoPayload)
                  [] StoryIn(data.response) # Undefined ->
                        shown = View("story", StoryIn(data.response))
                  [] data.response.type = "string" ->
                        shown = View("plainText", data.response)
                  [] OTHER -> TRUE

(***************************************************************************)
(* The audit log, per cycle                                                *)
(***************************************************************************)
\* executeClaudeAPICall was called by cycle c and has returned
ExecReturned(c) == hist.execCalls[c] > 0 /\ cycle[c] \in {"awaiting", "done"}

\* The kind of record that agrees with the Result cycle c wrote
KindFor(c) == IF hist.outcome[c].error # NULL THEN "ERROR" ELSE "RESPONSE RECEIVED"

\* C31: each cycle that calls executeClaudeAPICall appends exactly one audit
\* record, and it is an ERROR record if and only if the Result the cycle
\* wrote has error set, a RESPONSE RECEIVED record otherwise.
C31_OneRecordPerCall ==
    \A c \in Callers :
        ExecReturned(c) =>
            /\ Len(RecordsOf(c)) = 1
            /\ RecordsOf(c)[1].kind = KindFor(c)

\* C31 as amended: one logRequest call per cycle; its record is in the log,
\* once and of the kind of the Result, unless the append itself failed, and
\* then the cycle has no record.
C31_OneRecordUnlessAppendFails ==
    \A c \in Callers :
        ExecReturned(c) =>
            /\ hist.execCalls[c] = 1
            /\ hist.writes[c] = 1
            /\ Len(RecordsOf(c)) = (IF c \in hist.logFailed THEN 0 ELSE 1)
            /\ \A i \in 1..Len(RecordsOf(c)) : RecordsOf(c)[i].kind = KindFor(c)

\* One cycle has its ERROR record, another its RESPONSE RECEIVED record.
C31_Witness ==
    \E c, d \in Callers :
        /\ ExecReturned(c) /\ ExecReturned(d)
        /\ Len(RecordsOf(c)) = 1 /\ Len(RecordsOf(d)) = 1
        /\ hist.outcome[c].error # NULL /\ RecordsOf(c)[1].kind = "ERROR"
        /\ hist.outcome[d].error = NULL /\ RecordsOf(d)[1].kind = "RESPONSE RECEIVED"

\* C32: in the polling variant at most one upstream call is in flight in
\* every reachable state, whatever the order of request arrivals, timer
\* expiries and upstream completions.
C32_PollingAtMostOneInFlight == Cardinality(inFlight) <= 1

\* A call is in flight that a caller started after its wait, while another
\* caller's wait ended with the generation still under way.
C32_Witness ==
    \E c, d \in 1..MaxCallers :
        /\ inFlight = {c}
        /\ hist.polled[c] = "free"
        /\ hist.polled[d] = "stillProcessing"

(***************************************************************************)
(* The refresh handler                                                     *)
(***************************************************************************)
RefreshAnswered == {c \in 1..MaxCallers : hist.kind[c] = "refresh" /\ handler[c] = "replied"}
RefreshSucceeded ==
    [status |-> "200", body |-> [message |-> "Refresh triggered", success |-> TRUE]]

\* C33: postRefreshHandler answers success: true whenever the promise of
\* processPromptFile is fulfilled, whatever the cycle stored (an error Result
\* for a missing credential, an upstream failure or a missing prompt file
\* included); the 500 answer is given only when the promise is rejected.
C33_RefreshSuccessWhateverTheOutcome ==
    \A c \in RefreshAnswered :
        /\ HandlerPromise(State, c) = "fulfilled" => reply[c] = RefreshSucceeded
        /\ reply[c].status = "500" => HandlerPromise(State, c) = "rejected"
        /\ reply[c].status \in {"200", "500"}

\* Refreshes answered with success although their own cycles stored an error
\* Result: one for the missing prompt file, one for an upstream failure or a
\* missing credential.
C33_Witness ==
    \E c, d \in RefreshAnswered :
        /\ reply[c] = RefreshSucceeded /\ reply[d] = RefreshSucceeded
        /\ hist.role[c] = "driver" /\ hist.role[d] = "driver"
        /\ hist.outcome[c] # NoResult /\ hist.outcome[c].error = "File not found"
        /\ hist.execCalls[d] = 1
        /\ hist.outcome[d] # NoResult /\ hist.outcome[d].error # NULL

(***************************************************************************)
(* CSRF tokens                                                             *)
(***************************************************************************)
LastCall == hist.csrf.last
\* The last call was validateCsrfToken for a request that is not GET or HEAD
Validated == LastCall.op = "validate" /\ LastCall.method \notin {"GET", "HEAD"}
Issued(t) == t \in DOMAIN hist.csrf.issued
Expired(t, now) == now > hist.csrf.issued[t] + CsrfLifetime

\* C34: a token is passed on by validateCsrfToken for at most one request
\* that is not GET or HEAD; every later request presenting it gets 403.
C34_TokenAcceptedAtMostOnce ==
    /\ \A t \in Tokens : hist.csrf.accepted[t] <= 1
    /\ (Validated /\ LastCall.acceptedBefore >= 1) => LastCall.answer.status = "403"

\* A token that was passed on once is presented again and refused.
C34_Witness ==
    /\ Validated
    /\ LastCall.acceptedBefore = 1
    /\ LastCall.answer.status = "403"
    /\ ~Expired(LastCall.token, LastCall.now)

\* C35: validateCsrfToken passes a request that is not GET or HEAD on only
\* if its token was issued by generateCsrfToken, was not consumed, and the
\* time is not later than the issue time plus one hour; a token that is
\* missing, unknown or expired gets 403 and is not in the store afterwards.
C35_NeverAcceptedAfterExpiry ==
    Validated =>
        LET t == LastCall.token
        IN  /\ LastCall.answer = PassedOn =>
                /\ t # NoToken
                /\ Issued(t)
                /\ LastCall.acceptedBefore = 0
                /\ ~Expired(t, LastCall.now)
            /\ (t = NoToken \/ ~Issued(t) \/ Expired(t, LastCall.now)) =>
                /\ LastCall.answer.status = "403"
                /\ t \notin DOMAIN LastCall.after

\* A token that was in the store is presented a millisecond after its hour,
\* is refused and removed.
C35_Witness ==
    /\ Validated
    /\ LastCall.token \in DOMAIN LastCall.before
    /\ LastCall.now = hist.csrf.issued[LastCall.token] + CsrfLifetime + 1
    /\ LastCall.answer.status = "403"
    /\ LastCall.token \notin DOMAIN csrfTokens

\* C36: right after every generateCsrfToken call the store holds no token
\* whose expiry is earlier than the time of the call, and it holds the token
\* just issued; validateCsrfToken passes GET and HEAD requests on and leaves
\* the store as it was.
C36_CleanupOnGenerate ==
    /\ LastCall.op = "generate" =>
           /\ \A t \in DOMAIN LastCall.after : ~(LastCall.after[t] < LastCall.now)
           /\ LastCall.token \in DOMAIN LastCall.after
           /\ LastCall.after[LastCall.token] = LastCall.now + CsrfLifetime
           /\ \A t \in DOMAIN LastCall.before \ {LastCall.token} :
                  ~(LastCall.before[t] < LastCall.now) =>
                      /\ t \in DOMAIN LastCall.after
                      /\ LastCall.after[t] = LastCall.before[t]
    /\ (LastCall.op = "validate" /\ LastCall.method \in {"GET", "HEAD"}) =>
           /\ LastCall.answer = PassedOn
           /\ LastCall.after = LastCall.before

\* A call of generateCsrfToken that found an expired token in the store and
\* removed it.
C36_Witness ==
    /\ LastCall.op = "generate"
    /\ \E t \in DOMAIN LastCall.before :
           LastCall.before[t] < LastCall.now /\ t \notin DOMAIN csrfTokens
    /\ LastCall.token \in DOMAIN csrfTokens

====
